---- MODULE Spec2Model ----
(***************************************************************************)
(* Verification model of the companion relay server and browser client.   *)
(*                                                                         *)
(* SpecRecovery : the server's recovery coordinator (server index: the     *)
(*                on-demand relaunch callback, the WebSocket dispatch and  *)
(*                the boot reconnection watchdog) over the launcher and    *)
(*                the bridge's agent registry.                             *)
(* SpecRegistry : the bridge's agent registry under the WebSocket         *)
(*                dispatch alone.                                          *)
(* SpecRouter   : the bridge's pending-permission handling.                *)
(* SpecClient   : the browser client's frame handler and store.            *)
(***************************************************************************)
EXTENDS Integers, Sequences, FiniteSets, TLC

\* ------------------------------------------------------------------ bounds
\* Session ids, in the order the launcher's session table lists them.
SidSeq == <<"s1", "s2">>

Sids == {SidSeq[i] : i \in 1..Len(SidSeq)}

\* Agent (CLI) socket slots; a slot is reused once its close event was handled.
MaxSock == 2

\* Browser socket slots.
MaxBrowser == 1

\* The sessions a browser attaches to in the recovery specification.
BrowsedSids == {"s1"}

\* Horizon of the clock, in milliseconds.
MaxTime == 10000

\* Permission request ids an agent may use.
MaxReq == 2

\* Cap on the counted relays of one response to the agent.
MaxRelay == 2

\* Cap on concurrently awaited on-demand relaunch calls per session.
MaxInFlight == 2

\* WebSocket objects the browser client may hold at once; an object is reused
\* once its close event was handled.
MaxWs == 1

\* Cap on the length of a session's task list in the client store.
MaxTasks == 2

\* Cap on the length of a session's message list and of its server-side history.
MaxMsgs == 2

\* Cap on the text deltas held by a streaming accumulator.
MaxStream == 2

\* Cap on the ids drawn from nextId().
MaxIds == 2

\* Cap on the counted frames the client sends to the server.
MaxSent == 1

\* Messages kept per browser connection in the record of what the server sent it.
MaxOut == 3

\* --------------------------------------------------------- program constants
\* setTimeout(() => relaunchingSet.delete(sessionId), 5000)
COOLDOWN_MS == 5000

\* const RECONNECT_GRACE_MS = 10_000
RECONNECT_GRACE_MS == 10000

\* Granularity of the clock.
TimeStep == COOLDOWN_MS

NoSock == 0

SockIds == 1..MaxSock

BrowserIds == 1..MaxBrowser

ReqIds == 1..MaxReq

\* sockets.get(sessionId) === undefined
NoWs == 0

WsIds == 1..MaxWs

\* Tool-use ids a permission request may carry; "" is a request without one.
ToolUseIds == {"", "tu1"}

\* The browser frames the bridge relays to the agent besides permission
\* responses: a user turn, an interrupt, a model or permission-mode change.
BrowserFrameKinds == {"user_message", "interrupt", "set_model", "set_permission_mode"}

\* Tool names of the permission requests an agent sends.
ToolNames == {"Bash", "TaskCreate"}

\* The sessions the client follows in the frame-handling specification.
FrameSids == {"s1"}

\* Message ids of assistant frames; "" is a message without an id.
MsgIds == {"", "m1"}

\* Message texts.
Contents == {"a", "b"}

\* Texts of content_block_delta events.
DeltaTexts == {"x"}

\* usage.output_tokens values of message_delta events; 0 is an absent count.
TokenCounts == {0, 7}

\* setStreaming(sessionId, null)
Null == <<"null">>

\* setStreamingStats(sessionId, null)
NullStats == [null |-> TRUE]

\* A tool_use-free content block list.
NoBlock == [name |-> "", id |-> ""]

\* Lengths of the errors list of a result frame; 0 is an empty or absent list.
ErrorCounts == {0, 1}

\* Concurrent sendPushToAll invocations.
MaxPush == 1

\* WebSocket objects the browser client creates before one is collected, where
\* the Sidebar switches between sessions.
MaxSwitchWs == 2

\* cloudflared processes the tunnel manager spawns, overlapping lifecycle
\* calls, and tunnel connections counted.
MaxTunnelProcs == 3
MaxTunnelCalls == 2
MaxConnections == 1

\* First-turn callbacks of one session awaiting their title at once.
MaxNaming == 1

\* HTTP requests and WebSocket upgrades under way in fetch at once.
MaxAccessReqs == 1

SwitchWsIds == 1..MaxSwitchWs

PushIds == 1..MaxPush

\* Push endpoints and key sets of the subscriptions clients register.
Endpoints == {"e1", "e2"}

KeySets == {"k1", "k2"}

\* What webpush.sendNotification settles with: resolved (201) or rejected
\* with a statusCode.
SendOutcomes == {201, 404, 410, 500}

\* A send that has not settled, and one that has.
Pending == 0

Settled == 1

\* No sendPushToAll invocation under way in this slot.
IdleRun == [st |-> "idle", subs |-> <<>>, results |-> <<>>, expired |-> <<>>]

\* currentSessionId === null
NoSession == "-"

\* sessionNames.getName(sessionId) finds no name
NoName == "-"

\* Names users give, and titles generateSessionTitle returns (NoName for null).
ManualNames == {"renamed"}

Titles == {"title"}

AccessReqIds == 1..MaxAccessReqs

\* What a request asks for: a /ws/... upgrade or anything Hono handles.
RequestKinds == {"ws", "http"}

\* Values of the Cf-Access-Jwt-Assertion header: absent (null), present but
\* empty, a token jwtVerify rejects, a token jwtVerify may accept.
JwtHeaders == {"absent", "empty", "invalid", "valid"}

\* No request in this slot.
NoRequest == [kind |-> "-", jwt |-> "absent", pc |-> "free", failed |-> FALSE,
              cfAccessEmail |-> FALSE]

\* TunnelManager.process === null
NoProc == 0

TunnelProcIds == 1..MaxTunnelProcs

TunnelCallIds == 1..MaxTunnelCalls

\* No start/stop/restart invocation awaits in this slot.
IdleCall == [op |-> "idle", proc |-> NoProc]

\* The state stop() assigns (hostname, connectedAt and error are null in it).
StoppedState == [status |-> "stopped", connections |-> 0]

\* stderr lines parseOutput reacts to with a change of status or connections.
OutputLines == {"Registered tunnel connection", "Retrying connection"}


NoEvent == [type |-> "none", sid |-> "-", relaunched |-> FALSE, rid |-> 0, outcome |-> "none",
            mid |-> "-", kind |-> "-"]

VARIABLES
    now,              \* wall clock (ms since boot)
    lstate,           \* launcher: session id -> "none" | "starting" | "connected" | "exited"
    archived,         \* launcher: session id -> archived flag
    bootState,        \* session id -> launcher state restoreFromDisk() gave it at boot
    cliSocket,        \* bridge registry: session id -> agent socket slot or NoSock
    sock,             \* agent socket slot -> [st, sid]
    lastAttached,     \* session id -> agent socket most recently passed to handleCLIOpen
    browserSock,      \* browser socket slot -> [st, sid]
    relaunchingSet,   \* const relaunchingSet = new Set<string>()
    odInFlight,       \* session id -> on-demand callback invocations awaiting launcher.relaunch
    cooldownTimers,   \* session id -> due times of pending relaunchingSet.delete timers
    coolUntil,        \* session id -> end of the cooldown window opened by the last settled
                      \* on-demand relaunch, -1 when none is open
    wdPc,             \* watchdog: "none" | "armed" | "awaiting" | "done" | "aborted"
    wdStale,          \* watchdog: the list read by getStartingSessions() when the timer fired
    wdIdx,            \* watchdog: index in wdStale of the session being relaunched
    wdCalls,          \* session id -> launcher.relaunch calls made by the watchdog
    openedBeforeFire, \* session id -> its agent socket opened while the grace timer was pending
    ev,               \* the handler that ran last
    routerPending,    \* bridge: session id -> request ids in session.pendingPermissions
    reqHistory,       \* session id -> request id -> "new" | "pending" | "answered" | "cancelled"
    relayed,          \* session id -> request id -> responses relayed to the agent connection
    sockets,          \* client: const sockets = new Map<string, WebSocket>(), NoWs when absent
    ws,               \* client: WebSocket object -> [st, sid], sid the session of its handlers
    reconnectTimers,  \* client: keys of const reconnectTimers = new Map<string, Timeout>()
    armedTimeouts,    \* client: session id -> setTimeout callbacks of scheduleReconnect
                      \* neither run nor cleared
    taskCounters,     \* client: session id -> taskCounters.get(id) || 0
    processedToolUseIds, \* client: session id -> tool-use ids already turned into tasks
    pendingPermissions,  \* store: session id -> request ids (the keys) of its pending permissions
    sessionTasks,     \* store: session id -> ids of the tasks listed, in order
    clientSent,       \* client: frames handed to WebSocket.send
    messages,         \* store: session id -> list of [id, role, content]
    streaming,        \* store: session id -> accumulated delta texts (no entry when absent)
    streamingStartedAt,    \* store: session id -> start timestamp (no entry when absent)
    streamingOutputTokens, \* store: session id -> output-token counter (no entry when absent)
    idCounter,        \* client: let idCounter = 0 (nextId)
    history,          \* server: session id -> the message history it sends as message_history
    replayed,         \* session id -> length of the history last replayed, -1 before any replay
    browserOut,       \* server: browser socket slot -> session-state messages sent on it, in order
    cliConnected,     \* store: session id -> agent connected flag (no entry when absent)
    sessionStatus,    \* store: session id -> "idle" | "running" | "compacting" | "null"
    connectionStatus, \* store: session id -> "connecting" | "connected" | "disconnected"
    currentSessionId, \* store: the selected session, NoSession when null
    sessions,         \* store: keys of the sessions map
    deleting,         \* Sidebar: sessions whose handleDeleteSession awaits api.deleteSession
    tornDown,         \* sessions a Sidebar handler ran disconnectSession on and has not
                      \* called connectSession for since
    procAlive,        \* launcher: session id -> its agent process is running
    subscriptions,    \* push manager: the list in push-subscriptions.json
    pushRuns,         \* push manager: sendPushToAll invocation -> [st, subs, results, expired]
    tunnel,           \* TunnelManager: [process (NoProc when null), state ([status,
                      \* connections]), alive (processes spawned and not exited),
                      \* spawned (their number), calls (start/stop/restart invocation ->
                      \* [op, proc], awaiting proc's exit)]
    naming,           \* [sessionNames (session id -> name, NoName when getName finds
                      \* none), generating (session id -> first-turn callbacks awaiting
                      \* generateSessionTitle), updates (session id -> titles sent with
                      \* wsBridge.broadcastNameUpdate)]
    access            \* [reqs (request under way -> [kind, jwt, pc, failed,
                      \* cfAccessEmail]), teamDomain (loadConfig()?.teamDomain is set)]

recVars == <<now, lstate, archived, bootState, cliSocket, sock, lastAttached, browserSock,
             relaunchingSet, odInFlight, cooldownTimers, coolUntil,
             wdPc, wdStale, wdIdx, wdCalls, openedBeforeFire, ev>>

routerVars == <<routerPending, reqHistory, relayed>>

\* The push manager's state.
pushVars == <<subscriptions, pushRuns>>

\* The server's components beside the bridge: push manager, tunnel manager,
\* session naming and request admission.
sideVars == <<pushVars, tunnel, naming, access>>

serverVars == <<recVars, routerVars, browserOut, procAlive, sideVars>>

\* What the frame handlers keep besides tasks and permissions.
frameVars == <<messages, streaming, streamingStartedAt, streamingOutputTokens, idCounter,
               history, replayed>>

\* The store's per-session status maps.
statusVars == <<cliConnected, sessionStatus, connectionStatus>>

\* The store's session list and selection, and the Sidebar's deletions under way.
selectVars == <<currentSessionId, sessions, deleting, tornDown>>

clientVars == <<statusVars, selectVars, sockets, ws, reconnectTimers, armedTimeouts, taskCounters, processedToolUseIds,
                pendingPermissions, sessionTasks, clientSent, frameVars>>

vars == <<serverVars, clientVars>>

\* Map.set(k, v) and Map.delete(k) on a map held as a function.
MapSet(m, k, v) == [x \in DOMAIN m \cup {k} |-> IF x = k THEN v ELSE m[x]]

MapDelete(m, k) == [x \in DOMAIN m \ {k} |-> m[x]]

\* ------------------------------------------------------------------ launcher
\* launcher.getStartingSessions(): the sessions whose state is "starting".
getStartingSessions == SelectSeq(SidSeq, LAMBDA s : lstate[s] = "starting")

\* markConnected that marks every known session, whatever became of its process.
markConnected_AnyState(s) ==
    lstate' = IF lstate[s] = "none" THEN lstate ELSE [lstate EXCEPT ![s] = "connected"]

\* launcher.markConnected(sessionId): a session whose process is awaited or
\* connected becomes connected; one whose process has exited stays exited.
markConnected(s) ==
    lstate' = IF lstate[s] \in {"starting", "connected"}
              THEN [lstate EXCEPT ![s] = "connected"]
              ELSE lstate

\* The launcher state once launcher.relaunch(sessionId) has settled: a new
\* process was spawned (state "starting"), or the spawn failed.
relaunchSettled(s, ok) ==
    IF lstate[s] = "none" THEN lstate
    ELSE [lstate EXCEPT ![s] = IF ok THEN "starting" ELSE "exited"]

\* Whether the process of session s runs once launcher.relaunch(sessionId) has
\* settled: the old process was killed, and a new one runs if the spawn worked.
processAfterRelaunch(s, ok) ==
    IF lstate[s] = "none" THEN procAlive ELSE [procAlive EXCEPT ![s] = ok]

\* -------------------------------------------------------------------- bridge
\* handleCLIOpen that registers the new connection and leaves the prior one open.
handleCLIOpen_NoSupersede(k, s) ==
    /\ cliSocket' = [cliSocket EXCEPT ![s] = k]
    /\ lastAttached' = [lastAttached EXCEPT ![s] = k]
    /\ sock' = [sock EXCEPT ![k] = [st |-> "open", sid |-> s]]

\* wsBridge.handleCLIOpen(ws, sessionId): register the agent connection,
\* superseding (closing) the one registered before.
handleCLIOpen(k, s) ==
    LET prior == cliSocket[s] IN
    /\ cliSocket' = [cliSocket EXCEPT ![s] = k]
    /\ lastAttached' = [lastAttached EXCEPT ![s] = k]
    /\ sock' = [j \in SockIds |->
                  IF j = k THEN [st |-> "open", sid |-> s]
                  ELSE IF j = prior THEN [st |-> "closing", sid |-> s]
                  ELSE sock[j]]

\* wsBridge.handleCLIClose(ws): drop the connection from the registry.
handleCLIClose(k) ==
    LET s == sock[k].sid IN
    /\ cliSocket' = IF cliSocket[s] = k THEN [cliSocket EXCEPT ![s] = NoSock] ELSE cliSocket
    /\ sock' = [sock EXCEPT ![k] = [st |-> "free", sid |-> "-"]]
    /\ UNCHANGED lastAttached

\* ------------------------------------------------- on-demand relaunch (server)
\* RelaunchGuard without the relaunchingSet test.
RelaunchGuard_NoInFlightCheck(s) ==
    /\ ~archived[s]
    /\ lstate[s] # "none"
    /\ lstate[s] # "starting"

\* RelaunchGuard without the archived test.
RelaunchGuard_NoArchivedCheck(s) ==
    /\ s \notin relaunchingSet
    /\ lstate[s] # "none"
    /\ lstate[s] # "starting"

\* RelaunchGuard that relaunches exited sessions only.
RelaunchGuard_OnlyExited(s) ==
    /\ s \notin relaunchingSet
    /\ ~archived[s]
    /\ lstate[s] = "exited"

\* The conditions under which the callback goes on to call launcher.relaunch.
RelaunchGuard(s) ==
    /\ s \notin relaunchingSet
    /\ ~archived[s]
    /\ lstate[s] # "none"
    /\ lstate[s] # "starting"

\* wsBridge.onCLIRelaunchNeededCallback(async (sessionId) => ...), up to its await.
onCLIRelaunchNeededCallback(s) ==
    IF RelaunchGuard(s) /\ odInFlight[s] < MaxInFlight
    THEN /\ relaunchingSet' = relaunchingSet \cup {s}
         /\ odInFlight' = [odInFlight EXCEPT ![s] = @ + 1]
    ELSE UNCHANGED <<relaunchingSet, odInFlight>>

\* The snapshot of session s sent to an attaching browser: the n entries of
\* the history held at that moment (with the task list derived from them).
Snapshot(s) == [kind |-> "snapshot", n |-> Len(history[s])]

\* The live event that broadcasts entry n of a session's history.
LiveEvent(n) == [kind |-> "event", n |-> n]

\* handleBrowserOpen that registers the browser and sends it nothing.
handleBrowserOpen_NoSnapshot(b, s) ==
    /\ browserSock' = [browserSock EXCEPT ![b] = [st |-> "open", sid |-> s]]
    /\ UNCHANGED browserOut
    /\ IF cliSocket[s] = NoSock
       THEN onCLIRelaunchNeededCallback(s)
       ELSE UNCHANGED <<relaunchingSet, odInFlight>>

\* wsBridge.handleBrowserOpen(ws, sessionId): register the browser and send it
\* the snapshot of the session; a session without a live agent connection asks
\* for a relaunch.
handleBrowserOpen(b, s) ==
    /\ browserSock' = [browserSock EXCEPT ![b] = [st |-> "open", sid |-> s]]
    /\ browserOut' = [browserOut EXCEPT ![b] = <<Snapshot(s)>>]
    /\ IF cliSocket[s] = NoSock
       THEN onCLIRelaunchNeededCallback(s)
       ELSE UNCHANGED <<relaunchingSet, odInFlight>>

\* ------------------------------------------------ permission routing (bridge)
\* handlePermissionResponse that relays any response while an agent is attached.
handlePermissionResponse_NoPendingCheck(s, r) ==
    IF cliSocket[s] = NoSock \/ relayed[s][r] >= MaxRelay
    THEN /\ ev' = [NoEvent EXCEPT !.type = "permission_response", !.sid = s, !.rid = r,
                                   !.outcome = "no_agent"]
         /\ UNCHANGED <<routerPending, reqHistory, relayed>>
    ELSE /\ routerPending' = [routerPending EXCEPT ![s] = @ \ {r}]
         /\ reqHistory' = [reqHistory EXCEPT ![s][r] = "answered"]
         /\ relayed' = [relayed EXCEPT ![s][r] = @ + 1]
         /\ ev' = [NoEvent EXCEPT !.type = "permission_response", !.sid = s, !.rid = r,
                                   !.outcome = "relayed"]

\* handlePermissionResponse that relays a matching response and keeps the entry.
handlePermissionResponse_KeepsPending(s, r) ==
    IF r \notin routerPending[s] \/ relayed[s][r] >= MaxRelay
    THEN /\ ev' = [NoEvent EXCEPT !.type = "permission_response", !.sid = s, !.rid = r,
                                   !.outcome = "rejected"]
         /\ UNCHANGED <<routerPending, reqHistory, relayed>>
    ELSE IF cliSocket[s] = NoSock
    THEN /\ ev' = [NoEvent EXCEPT !.type = "permission_response", !.sid = s, !.rid = r,
                                   !.outcome = "no_agent"]
         /\ UNCHANGED <<routerPending, reqHistory, relayed>>
    ELSE /\ reqHistory' = [reqHistory EXCEPT ![s][r] = "answered"]
         /\ relayed' = [relayed EXCEPT ![s][r] = @ + 1]
         /\ ev' = [NoEvent EXCEPT !.type = "permission_response", !.sid = s, !.rid = r,
                                   !.outcome = "relayed"]
         /\ UNCHANGED routerPending

\* The bridge's handling of a browser's response to permission request r of
\* session s: a response to an id that is not pending is rejected
\* (UnknownControlResponse); without an agent connection it fails
\* (NoAgentConnection); otherwise it is relayed and the entry removed.
handlePermissionResponse(s, r) ==
    IF r \notin routerPending[s]
    THEN /\ ev' = [NoEvent EXCEPT !.type = "permission_response", !.sid = s, !.rid = r,
                                   !.outcome = "rejected"]
         /\ UNCHANGED <<routerPending, reqHistory, relayed>>
    ELSE IF cliSocket[s] = NoSock
    THEN /\ ev' = [NoEvent EXCEPT !.type = "permission_response", !.sid = s, !.rid = r,
                                   !.outcome = "no_agent"]
         /\ UNCHANGED <<routerPending, reqHistory, relayed>>
    ELSE /\ routerPending' = [routerPending EXCEPT ![s] = @ \ {r}]
         /\ reqHistory' = [reqHistory EXCEPT ![s][r] = "answered"]
         /\ relayed' = [relayed EXCEPT ![s][r] = @ + 1]
         /\ ev' = [NoEvent EXCEPT !.type = "permission_response", !.sid = s, !.rid = r,
                                   !.outcome = "relayed"]

\* handleBrowserFrame that drops the frame when no agent is attached.
handleBrowserFrame_DropsSilently(s, kind) ==
    /\ ev' = [NoEvent EXCEPT !.type = "browser_frame", !.sid = s, !.kind = kind,
                              !.outcome = IF cliSocket[s] = NoSock THEN "none" ELSE "relayed"]
    /\ UNCHANGED <<routerPending, reqHistory, relayed>>

\* The bridge's handling of a browser frame of the given kind for session s:
\* relayed to the attached agent connection; without one the call fails
\* (NoAgentConnection) and the failure goes back to the calling browser.
handleBrowserFrame(s, kind) ==
    /\ ev' = [NoEvent EXCEPT !.type = "browser_frame", !.sid = s, !.kind = kind,
                              !.outcome = IF cliSocket[s] = NoSock THEN "no_agent" ELSE "relayed"]
    /\ UNCHANGED <<routerPending, reqHistory, relayed>>

\* The bridge's handling of an agent control_request (tool approval).
handleControlRequest(s, r) ==
    /\ routerPending' = [routerPending EXCEPT ![s] = @ \cup {r}]
    /\ reqHistory' = [reqHistory EXCEPT ![s][r] = "pending"]
    /\ UNCHANGED relayed

\* The bridge's handling of an agent cancellation of request r.
handleControlCancel(s, r) ==
    /\ routerPending' = [routerPending EXCEPT ![s] = @ \ {r}]
    /\ reqHistory' = [reqHistory EXCEPT ![s][r] =
                         IF r \in routerPending[s] THEN "cancelled" ELSE @]
    /\ UNCHANGED relayed

\* ------------------------------------------------------------ initial state
InitRouterVars ==
    /\ routerPending = [s \in Sids |-> {}]
    /\ reqHistory = [s \in Sids |-> [r \in ReqIds |-> "new"]]
    /\ relayed = [s \in Sids |-> [r \in ReqIds |-> 0]]

\* The browser client after page load, with the WebSocket objects of W to
\* create: no socket, empty store.
InitClientOver(W) ==
    /\ sockets = [s \in Sids |-> NoWs]
    /\ cliConnected = [s \in {} |-> FALSE]
    /\ sessionStatus = [s \in {} |-> "null"]
    /\ connectionStatus = [s \in {} |-> "disconnected"]
    /\ currentSessionId = NoSession
    /\ sessions = {}
    /\ deleting = {}
    /\ tornDown = {}
    /\ ws = [w \in W |-> [st |-> "free", sid |-> "-"]]
    /\ reconnectTimers = {}
    /\ armedTimeouts = [s \in Sids |-> 0]
    /\ taskCounters = [s \in Sids |-> 0]
    /\ processedToolUseIds = [s \in Sids |-> {}]
    /\ pendingPermissions = [s \in {} |-> {}]
    /\ sessionTasks = [s \in Sids |-> <<>>]
    /\ clientSent = 0
    /\ messages = [s \in Sids |-> <<>>]
    /\ streaming = [s \in {} |-> <<>>]
    /\ streamingStartedAt = [s \in {} |-> 0]
    /\ streamingOutputTokens = [s \in {} |-> 0]
    /\ idCounter = 0
    /\ history = [s \in Sids |-> <<>>]
    /\ replayed = [s \in Sids |-> -1]

InitClientVars == InitClientOver(WsIds)

\* The server after boot; boot is the launcher state of each session after
\* restoreFromDisk(). The browser client has the WebSocket objects of W.
InitServerOver(BootStates, W) ==
    /\ InitRouterVars
    /\ InitClientOver(W)
    /\ now = 0
    /\ lstate \in BootStates
    /\ archived \in [Sids -> BOOLEAN]
    /\ \A s \in Sids : lstate[s] = "none" => ~archived[s]
    /\ bootState = lstate
    /\ cliSocket = [s \in Sids |-> NoSock]
    /\ sock = [k \in SockIds |-> [st |-> "free", sid |-> "-"]]
    /\ lastAttached = [s \in Sids |-> NoSock]
    /\ browserSock = [b \in BrowserIds |-> [st |-> "free", sid |-> "-"]]
    /\ browserOut = [b \in BrowserIds |-> <<>>]
    /\ relaunchingSet = {}
    /\ odInFlight = [s \in Sids |-> 0]
    /\ cooldownTimers = [s \in Sids |-> {}]
    /\ coolUntil = [s \in Sids |-> -1]
    /\ wdPc = IF Len(getStartingSessions) > 0 THEN "armed" ELSE "none"
    /\ wdStale = <<>>
    /\ wdIdx = 0
    /\ wdCalls = [s \in Sids |-> 0]
    /\ openedBeforeFire = [s \in Sids |-> FALSE]
    /\ procAlive = [s \in Sids |-> lstate[s] = "starting"]
    /\ subscriptions = <<>>
    /\ pushRuns = [p \in PushIds |-> IdleRun]
    /\ tunnel = [process |-> NoProc, state |-> StoppedState, alive |-> {}, spawned |-> 0,
                 calls |-> [c \in TunnelCallIds |-> IdleCall]]
    /\ naming = [sessionNames |-> [s \in Sids |-> NoName],
                 generating |-> [s \in Sids |-> 0],
                 updates |-> [s \in Sids |-> {}]]
    /\ access = [reqs |-> [r \in AccessReqIds |-> NoRequest], teamDomain |-> FALSE]
    /\ ev = NoEvent

InitServer(BootStates) == InitServerOver(BootStates, WsIds)

\* Boot with any mix of restored sessions.
InitRecovery == InitServer([Sids -> {"none", "starting", "exited"}])

\* Boot with nothing to restore: the sessions are unknown to the launcher.
InitRouter == InitServer({[s \in Sids |-> "none"]})

\* ------------------------------------------------------------------- actions
odVars == <<relaunchingSet, odInFlight, cooldownTimers, coolUntil>>

wdVars == <<wdPc, wdStale, wdIdx, wdCalls>>

sockVars == <<cliSocket, sock, lastAttached>>

\* What the recovery coordinator's handlers never touch.
recoveryFar == <<routerVars, clientVars, browserOut, procAlive, sideVars>>

\* What the handlers that start or lose an agent process never touch.
launcherFar == <<routerVars, clientVars, browserOut, sideVars>>

\* What the handlers of a browser socket's open and close never touch.
browserFar == <<routerVars, clientVars, procAlive, sideVars>>

\* Time passes.
Tick ==
    /\ now + TimeStep <= MaxTime
    /\ now' = now + TimeStep
    /\ coolUntil' = [s \in Sids |-> IF coolUntil[s] <= now' THEN -1 ELSE coolUntil[s]]
    /\ ev' = NoEvent
    /\ UNCHANGED <<lstate, archived, bootState, sockVars, browserSock, relaunchingSet,
                   odInFlight, cooldownTimers, wdVars, openedBeforeFire>>
    /\ UNCHANGED recoveryFar

\* websocket.open, data.kind === "cli"
WsOpenCli(k, s) ==
    /\ sock[k].st = "free"
    /\ handleCLIOpen(k, s)
    /\ markConnected(s)
    /\ openedBeforeFire' = IF wdPc = "armed" /\ bootState[s] = "starting"
                           THEN [openedBeforeFire EXCEPT ![s] = TRUE]
                           ELSE openedBeforeFire
    /\ ev' = NoEvent
    /\ UNCHANGED <<now, archived, bootState, browserSock, odVars, wdVars>>
    /\ UNCHANGED recoveryFar

\* websocket.close, data.kind === "cli"
WsCloseCli(k) ==
    /\ sock[k].st \in {"open", "closing"}
    /\ handleCLIClose(k)
    /\ ev' = NoEvent
    /\ UNCHANGED <<now, lstate, archived, bootState, browserSock, odVars, wdVars,
                   openedBeforeFire>>
    /\ UNCHANGED recoveryFar

\* websocket.open, data.kind === "browser"
WsOpenBrowser(b, s) ==
    /\ browserSock[b].st = "free"
    /\ handleBrowserOpen(b, s)
    /\ ev' = [NoEvent EXCEPT !.type = "browser_open", !.sid = s,
                              !.relaunched = odInFlight'[s] > odInFlight[s]]
    /\ UNCHANGED <<now, lstate, archived, bootState, sockVars, cooldownTimers, coolUntil,
                   wdVars, openedBeforeFire>>
    /\ UNCHANGED browserFar

\* websocket.close, data.kind === "browser"
WsCloseBrowser(b) ==
    /\ browserSock[b].st = "open"
    /\ browserSock' = [browserSock EXCEPT ![b] = [st |-> "free", sid |-> "-"]]
    /\ browserOut' = [browserOut EXCEPT ![b] = <<>>]
    /\ ev' = NoEvent
    /\ UNCHANGED <<now, lstate, archived, bootState, sockVars, odVars, wdVars,
                   openedBeforeFire>>
    /\ UNCHANGED browserFar

\* OdRelaunchSettle whose finally block deletes the mark at once, without a timer.
OdRelaunchSettle_DeleteNow(s, ok) ==
    /\ odInFlight[s] > 0
    /\ odInFlight' = [odInFlight EXCEPT ![s] = @ - 1]
    /\ lstate' = relaunchSettled(s, ok)
    /\ procAlive' = processAfterRelaunch(s, ok)
    /\ relaunchingSet' = relaunchingSet \ {s}
    /\ coolUntil' = [coolUntil EXCEPT ![s] = now + COOLDOWN_MS]
    /\ ev' = NoEvent
    /\ UNCHANGED <<now, archived, bootState, sockVars, browserSock, cooldownTimers, wdVars,
                   openedBeforeFire>>
    /\ UNCHANGED launcherFar

\* The awaited launcher.relaunch of the callback settles (resolves when ok,
\* rejects otherwise); the finally block arms the cooldown timer.
OdRelaunchSettle(s, ok) ==
    /\ odInFlight[s] > 0
    /\ odInFlight' = [odInFlight EXCEPT ![s] = @ - 1]
    /\ lstate' = relaunchSettled(s, ok)
    /\ procAlive' = processAfterRelaunch(s, ok)
    /\ cooldownTimers' = [cooldownTimers EXCEPT ![s] = @ \cup {now + COOLDOWN_MS}]
    /\ coolUntil' = [coolUntil EXCEPT ![s] = now + COOLDOWN_MS]
    /\ ev' = NoEvent
    /\ UNCHANGED <<now, archived, bootState, sockVars, browserSock, relaunchingSet, wdVars,
                   openedBeforeFire>>
    /\ UNCHANGED launcherFar

\* The cooldown timer fires: relaunchingSet.delete(sessionId).
CooldownFire(s, d) ==
    /\ d \in cooldownTimers[s]
    /\ now >= d
    /\ relaunchingSet' = relaunchingSet \ {s}
    /\ cooldownTimers' = [cooldownTimers EXCEPT ![s] = @ \ {d}]
    /\ ev' = NoEvent
    /\ UNCHANGED <<now, lstate, archived, bootState, sockVars, browserSock, odInFlight,
                   coolUntil, wdVars, openedBeforeFire>>
    /\ UNCHANGED recoveryFar

\* The watchdog's for-loop from index i of the list `stale` up to its next
\* await: archived sessions are skipped, the first other one is relaunched.
WatchdogLoop(stale, i) ==
    LET rest == {j \in i..Len(stale) : ~archived[stale[j]]} IN
    IF rest = {}
    THEN /\ wdPc' = "done"
         /\ wdIdx' = Len(stale) + 1
         /\ UNCHANGED wdCalls
    ELSE LET j == CHOOSE x \in rest : \A y \in rest : x <= y IN
         /\ wdPc' = "awaiting"
         /\ wdIdx' = j
         /\ wdCalls' = [wdCalls EXCEPT ![stale[j]] = @ + 1]

\* The grace timer fires.
WatchdogFire ==
    /\ wdPc = "armed"
    /\ now >= RECONNECT_GRACE_MS
    /\ wdStale' = getStartingSessions
    /\ WatchdogLoop(getStartingSessions, 1)
    /\ ev' = NoEvent
    /\ UNCHANGED <<now, lstate, archived, bootState, sockVars, browserSock, odVars,
                   openedBeforeFire>>
    /\ UNCHANGED recoveryFar

\* The watchdog's awaited launcher.relaunch settles; a rejection ends the
\* timer callback, a resolution continues the loop.
WatchdogRelaunchSettle(ok) ==
    /\ wdPc = "awaiting"
    /\ lstate' = relaunchSettled(wdStale[wdIdx], ok)
    /\ procAlive' = processAfterRelaunch(wdStale[wdIdx], ok)
    /\ IF ok
       THEN WatchdogLoop(wdStale, wdIdx + 1)
       ELSE /\ wdPc' = "aborted"
            /\ UNCHANGED <<wdIdx, wdCalls>>
    /\ ev' = NoEvent
    /\ UNCHANGED <<now, archived, bootState, sockVars, browserSock, odVars, wdStale,
                   openedBeforeFire>>
    /\ UNCHANGED launcherFar

\* The agent process of a session exits.
ProcessExit(s) ==
    /\ lstate[s] \in {"starting", "connected"}
    /\ lstate' = [lstate EXCEPT ![s] = "exited"]
    /\ procAlive' = [procAlive EXCEPT ![s] = FALSE]
    /\ ev' = NoEvent
    /\ UNCHANGED <<now, archived, bootState, sockVars, browserSock, odVars, wdVars,
                   openedBeforeFire>>
    /\ UNCHANGED launcherFar

\* The session is archived.
Archive(s) ==
    /\ lstate[s] # "none"
    /\ ~archived[s]
    /\ archived' = [archived EXCEPT ![s] = TRUE]
    /\ ev' = NoEvent
    /\ UNCHANGED <<now, lstate, bootState, sockVars, browserSock, odVars, wdVars,
                   openedBeforeFire>>
    /\ UNCHANGED recoveryFar

\* A session is created after boot: the launcher spawns its agent.
CreateSession(s) ==
    /\ lstate[s] = "none"
    /\ lstate' = [lstate EXCEPT ![s] = "starting"]
    /\ procAlive' = [procAlive EXCEPT ![s] = TRUE]
    /\ ev' = NoEvent
    /\ UNCHANGED <<now, archived, bootState, sockVars, browserSock, odVars, wdVars,
                   openedBeforeFire>>
    /\ UNCHANGED launcherFar

NextRecovery ==
    \/ Tick
    \/ \E i \in SockIds \cap DOMAIN SidSeq : WsOpenCli(i, SidSeq[i])
    \/ \E k \in SockIds : WsCloseCli(k)
    \/ \E b \in BrowserIds, s \in BrowsedSids : WsOpenBrowser(b, s)
    \/ \E b \in BrowserIds : WsCloseBrowser(b)
    \/ \E s \in Sids, ok \in BOOLEAN : OdRelaunchSettle(s, ok)
    \/ \E s \in Sids : \E d \in cooldownTimers[s] : CooldownFire(s, d)
    \/ WatchdogFire
    \/ \E ok \in BOOLEAN : WatchdogRelaunchSettle(ok)
    \/ \E s \in Sids : ProcessExit(s)
    \/ \E s \in Sids : Archive(s)
    \/ \E s \in Sids : CreateSession(s)

SpecRecovery == InitRecovery /\ [][NextRecovery]_vars

\* The settling of an on-demand relaunch whose timer is armed after the await
\* instead of in a finally block: a rejection leaves no timer behind.
OdRelaunchSettleInTime_NoFinally(s, ok) ==
    /\ now + COOLDOWN_MS <= MaxTime
    /\ odInFlight[s] > 0
    /\ odInFlight' = [odInFlight EXCEPT ![s] = @ - 1]
    /\ lstate' = relaunchSettled(s, ok)
    /\ procAlive' = processAfterRelaunch(s, ok)
    /\ cooldownTimers' = IF ok
                         THEN [cooldownTimers EXCEPT ![s] = @ \cup {now + COOLDOWN_MS}]
                         ELSE cooldownTimers
    /\ coolUntil' = [coolUntil EXCEPT ![s] = now + COOLDOWN_MS]
    /\ ev' = NoEvent
    /\ UNCHANGED <<now, archived, bootState, sockVars, browserSock, relaunchingSet, wdVars,
                   openedBeforeFire>>
    /\ UNCHANGED launcherFar

\* The settling of an on-demand relaunch early enough for its cooldown timer
\* to come due within the time modelled.
OdRelaunchSettleInTime(s, ok) ==
    /\ now + COOLDOWN_MS <= MaxTime
    /\ OdRelaunchSettle(s, ok)

\* The server with time passing and timers firing: the recovery coordinator's
\* events, where the clock advances while it can and a due cooldown timer fires.
NextCooldown ==
    \/ Tick
    \/ \E i \in SockIds \cap DOMAIN SidSeq : WsOpenCli(i, SidSeq[i])
    \/ \E k \in SockIds : WsCloseCli(k)
    \/ \E b \in BrowserIds, s \in BrowsedSids : WsOpenBrowser(b, s)
    \/ \E b \in BrowserIds : WsCloseBrowser(b)
    \/ \E s \in Sids, ok \in BOOLEAN : OdRelaunchSettleInTime(s, ok)
    \/ \E s \in Sids : \E d \in cooldownTimers[s] : CooldownFire(s, d)
    \/ \E s \in Sids : ProcessExit(s)

CooldownFairness ==
    /\ WF_vars(Tick)
    /\ \A s \in Sids : WF_vars(\E d \in cooldownTimers[s] : CooldownFire(s, d))

SpecCooldown == InitRecovery /\ [][NextCooldown]_vars /\ CooldownFairness

\* websocket.message, data.kind === "cli": a control_request frame.
WsMessageCliControlRequest(k, r) ==
    /\ sock[k].st = "open"
    /\ reqHistory[sock[k].sid][r] = "new"
    /\ handleControlRequest(sock[k].sid, r)
    /\ ev' = NoEvent
    /\ UNCHANGED <<now, lstate, archived, bootState, sockVars, browserSock, odVars, wdVars,
                   openedBeforeFire>>
    /\ UNCHANGED <<clientVars, browserOut, procAlive, sideVars>>

\* websocket.message, data.kind === "cli": a cancellation of a control_request.
WsMessageCliControlCancel(k, r) ==
    /\ sock[k].st = "open"
    /\ reqHistory[sock[k].sid][r] # "new"
    /\ handleControlCancel(sock[k].sid, r)
    /\ ev' = [NoEvent EXCEPT !.type = "control_cancel", !.sid = sock[k].sid, !.rid = r]
    /\ UNCHANGED <<now, lstate, archived, bootState, sockVars, browserSock, odVars, wdVars,
                   openedBeforeFire>>
    /\ UNCHANGED <<clientVars, browserOut, procAlive, sideVars>>

\* websocket.message, data.kind === "browser": a permission response.
WsMessageBrowserResponse(b, r) ==
    /\ browserSock[b].st = "open"
    /\ handlePermissionResponse(browserSock[b].sid, r)
    /\ UNCHANGED <<now, lstate, archived, bootState, sockVars, browserSock, odVars, wdVars,
                   openedBeforeFire>>
    /\ UNCHANGED <<clientVars, browserOut, procAlive, sideVars>>

\* websocket.message, data.kind === "browser": a user turn, an interrupt or a
\* configuration change.
WsMessageBrowserFrame(b, kind) ==
    /\ browserSock[b].st = "open"
    /\ handleBrowserFrame(browserSock[b].sid, kind)
    /\ UNCHANGED <<now, lstate, archived, bootState, sockVars, browserSock, odVars, wdVars,
                   openedBeforeFire>>
    /\ UNCHANGED <<clientVars, browserOut, procAlive, sideVars>>

\* The agent registry alone: any agent socket may open for any session.
NextRegistry ==
    \/ \E k \in SockIds, s \in Sids : WsOpenCli(k, s)
    \/ \E k \in SockIds : WsCloseCli(k)
    \/ \E b \in BrowserIds, s \in Sids : WsOpenBrowser(b, s)
    \/ \E b \in BrowserIds : WsCloseBrowser(b)

SpecRegistry == InitRouter /\ [][NextRegistry]_vars

\* Permission routing between one agent connection per session and browsers.
NextRouter ==
    \/ \E i \in SockIds \cap DOMAIN SidSeq : WsOpenCli(i, SidSeq[i])
    \/ \E k \in SockIds : WsCloseCli(k)
    \/ \E b \in BrowserIds, s \in Sids : WsOpenBrowser(b, s)
    \/ \E b \in BrowserIds : WsCloseBrowser(b)
    \/ \E k \in SockIds, r \in ReqIds : WsMessageCliControlRequest(k, r)
    \/ \E k \in SockIds, r \in ReqIds : WsMessageCliControlCancel(k, r)
    \/ \E b \in BrowserIds, r \in ReqIds : WsMessageBrowserResponse(b, r)

SpecRouter == InitRouter /\ [][NextRouter]_vars

\* Browser frames relayed to the agent connection of the browsed sessions:
\* permission responses, user turns, interrupts and configuration changes.
NextRelay ==
    \/ \E i \in SockIds \cap DOMAIN SidSeq : WsOpenCli(i, SidSeq[i])
    \/ \E k \in SockIds : WsCloseCli(k)
    \/ \E b \in BrowserIds, s \in BrowsedSids : WsOpenBrowser(b, s)
    \/ \E b \in BrowserIds : WsCloseBrowser(b)
    \/ \E k \in SockIds, r \in ReqIds : sock[k].sid \in BrowsedSids /\ WsMessageCliControlRequest(k, r)
    \/ \E b \in BrowserIds, r \in ReqIds : WsMessageBrowserResponse(b, r)
    \/ \E b \in BrowserIds, kind \in BrowserFrameKinds : WsMessageBrowserFrame(b, kind)

SpecRelay == InitRouter /\ [][NextRelay]_vars

\* ------------------------------------------------------------ browser client
\* Everything of the server but the record of the last handler.
serverQuiet == <<now, lstate, archived, bootState, sockVars, browserSock, odVars, wdVars,
                 openedBeforeFire, routerVars, browserOut, procAlive, sideVars>>

connVars == <<sockets, ws, reconnectTimers, armedTimeouts>>

taskVars == <<taskCounters, processedToolUseIds, sessionTasks>>

\* The pending permissions the store holds for a session.
PermsOf(s) == IF s \in DOMAIN pendingPermissions THEN pendingPermissions[s] ELSE {}

\* store.addPermission(sessionId, request): Map.set under request.request_id.
addPermission(s, req) ==
    pendingPermissions' =
        [t \in DOMAIN pendingPermissions \cup {s} |->
            IF t = s
            THEN PermsOf(s) \cup {req.request_id}
            ELSE pendingPermissions[t]]

\* store.removePermission(sessionId, requestId)
removePermission(s, r) ==
    pendingPermissions' =
        [t \in DOMAIN pendingPermissions |->
            IF t = s
            THEN pendingPermissions[t] \ {r}
            ELSE pendingPermissions[t]]

\* extractTasksFromBlocks(sessionId, [block]) for one tool_use block with a
\* name of ToolNames, an id (possibly "") and an input: the block is skipped
\* when its id was processed before; TaskCreate appends a task numbered by the
\* session's counter; a name that is no task tool changes no task.
extractTasksFromBlocks(s, name, toolUseId) ==
    IF toolUseId # "" /\ toolUseId \in processedToolUseIds[s]
    THEN UNCHANGED taskVars
    ELSE /\ processedToolUseIds' =
                IF toolUseId # ""
                THEN [processedToolUseIds EXCEPT ![s] = @ \cup {toolUseId}]
                ELSE processedToolUseIds
         /\ IF name = "TaskCreate"
            THEN /\ taskCounters' = [taskCounters EXCEPT ![s] = @ + 1]
                 /\ sessionTasks' = [sessionTasks EXCEPT ![s] = Append(@, taskCounters[s] + 1)]
            ELSE UNCHANGED <<taskCounters, sessionTasks>>

\* sendToSession(sessionId, msg)
sendToSession(s) ==
    clientSent' = IF sockets[s] # NoWs /\ ws[sockets[s]].st = "open"
                  THEN clientSent + 1
                  ELSE clientSent

\* scheduleReconnect(sessionId)
scheduleReconnect_NoGuard(s) ==
    /\ reconnectTimers' = reconnectTimers \cup {s}
    /\ armedTimeouts' = [armedTimeouts EXCEPT ![s] = @ + 1]

scheduleReconnect(s) ==
    IF s \in reconnectTimers
    THEN UNCHANGED <<reconnectTimers, armedTimeouts>>
    ELSE /\ reconnectTimers' = reconnectTimers \cup {s}
         /\ armedTimeouts' = [armedTimeouts EXCEPT ![s] = @ + 1]

\* const timer = reconnectTimers.get(id); if (timer) { clearTimeout(timer);
\* reconnectTimers.delete(id) }, for a session id or null
clearReconnectTimer(s) ==
    /\ reconnectTimers' = reconnectTimers \ {s}
    /\ armedTimeouts' = [t \in Sids |-> IF t = s /\ t \in reconnectTimers
                                        THEN armedTimeouts[t] - 1
                                        ELSE armedTimeouts[t]]

\* connectSession(sessionId): the new WebSocket is the lowest free object.
connectSession(s) ==
    IF sockets[s] # NoWs
    THEN UNCHANGED <<sockets, ws>>
    ELSE \E w \in DOMAIN ws :
            /\ ws[w].st = "free"
            /\ \A v \in DOMAIN ws : v < w => ws[v].st # "free"
            /\ ws' = [ws EXCEPT ![w] = [st |-> "connecting", sid |-> s]]
            /\ sockets' = [sockets EXCEPT ![s] = w]

\* A caller (the App) connects the client to a session.
ConnectSession(s) ==
    /\ sockets[s] = NoWs
    /\ connectSession(s)
    /\ ev' = NoEvent
    /\ UNCHANGED <<reconnectTimers, armedTimeouts, taskVars, pendingPermissions, clientSent>>
    /\ UNCHANGED serverQuiet
    /\ UNCHANGED frameVars
    /\ connectionStatus' = MapSet(connectionStatus, s, "connecting")
    /\ UNCHANGED <<cliConnected, sessionStatus, selectVars>>

\* ws.onopen
WsOnOpen(w) ==
    /\ ws[w].st = "connecting"
    /\ ws' = [ws EXCEPT ![w].st = "open"]
    /\ clearReconnectTimer(ws[w].sid)
    /\ ev' = NoEvent
    /\ UNCHANGED <<sockets, taskVars, pendingPermissions, clientSent>>
    /\ UNCHANGED serverQuiet
    /\ UNCHANGED frameVars
    /\ connectionStatus' = MapSet(connectionStatus, ws[w].sid, "connected")
    /\ UNCHANGED <<cliConnected, sessionStatus, selectVars>>

\* ws.onerror: ws.close()
WsOnError(w) ==
    /\ ws[w].st \in {"connecting", "open"}
    /\ ws' = [ws EXCEPT ![w].st = "closing"]
    /\ ev' = NoEvent
    /\ UNCHANGED <<sockets, reconnectTimers, armedTimeouts, taskVars, pendingPermissions,
                   clientSent>>
    /\ UNCHANGED serverQuiet
    /\ UNCHANGED frameVars
    /\ UNCHANGED <<cliConnected, sessionStatus, connectionStatus, selectVars>>

\* ws.onclose, of a socket the peer closed or of one closed by ws.close().
WsOnClose(w) ==
    /\ ws[w].st \in {"connecting", "open", "closing"}
    /\ ws' = [ws EXCEPT ![w] = [st |-> "free", sid |-> "-"]]
    /\ sockets' = [sockets EXCEPT ![ws[w].sid] = NoWs]
    /\ scheduleReconnect(ws[w].sid)
    /\ ev' = NoEvent
    /\ UNCHANGED <<taskVars, pendingPermissions, clientSent>>
    /\ UNCHANGED serverQuiet
    /\ UNCHANGED frameVars
    /\ connectionStatus' = MapSet(connectionStatus, ws[w].sid, "disconnected")
    /\ UNCHANGED <<cliConnected, sessionStatus, selectVars>>

\* The reconnect timer's callback; known is the store's answer to
\* currentSessionId === sessionId || sessions.has(sessionId).
ReconnectFire(s, known) ==
    /\ armedTimeouts[s] > 0
    /\ reconnectTimers' = reconnectTimers \ {s}
    /\ armedTimeouts' = [armedTimeouts EXCEPT ![s] = @ - 1]
    /\ IF known THEN connectSession(s) ELSE UNCHANGED <<sockets, ws>>
    /\ ev' = NoEvent
    /\ UNCHANGED <<taskVars, pendingPermissions, clientSent>>
    /\ UNCHANGED serverQuiet
    /\ UNCHANGED frameVars
    /\ connectionStatus' = IF known /\ sockets[s] = NoWs
                           THEN MapSet(connectionStatus, s, "connecting")
                           ELSE connectionStatus
    /\ UNCHANGED <<cliConnected, sessionStatus, selectVars>>

\* disconnectSession(sessionId)
disconnectSession(s) ==
    /\ clearReconnectTimer(s)
    /\ IF sockets[s] # NoWs
       THEN /\ ws' = [ws EXCEPT ![sockets[s]].st = "closing"]
            /\ sockets' = [sockets EXCEPT ![s] = NoWs]
       ELSE UNCHANGED <<sockets, ws>>
    /\ processedToolUseIds' = [processedToolUseIds EXCEPT ![s] = {}]
    /\ taskCounters' = [taskCounters EXCEPT ![s] = 0]
    /\ ev' = NoEvent
    /\ UNCHANGED <<sessionTasks, pendingPermissions, clientSent>>
    /\ UNCHANGED serverQuiet
    /\ UNCHANGED frameVars
    /\ UNCHANGED <<cliConnected, sessionStatus, connectionStatus, selectVars>>

\* handleMessage, case "permission_request"
HandleMessagePermissionRequest(w, r, name, toolUseId, hasInput) ==
    /\ ws[w].st = "open"
    /\ (hasInput /\ name = "TaskCreate") => Len(sessionTasks[ws[w].sid]) < MaxTasks
    /\ addPermission(ws[w].sid, [request_id |-> r, tool_name |-> name])
    /\ IF hasInput
       THEN extractTasksFromBlocks(ws[w].sid, name, toolUseId)
       ELSE UNCHANGED taskVars
    /\ ev' = [NoEvent EXCEPT !.type = "permission_request", !.sid = ws[w].sid, !.rid = r]
    /\ UNCHANGED <<connVars, clientSent>>
    /\ UNCHANGED serverQuiet
    /\ UNCHANGED frameVars
    /\ UNCHANGED <<cliConnected, sessionStatus, connectionStatus, selectVars>>

\* handleMessage, case "permission_cancelled", answering the server as well.
HandleMessagePermissionCancelled_Responds(w, r) ==
    /\ ws[w].st = "open"
    /\ removePermission(ws[w].sid, r)
    /\ sendToSession(ws[w].sid)
    /\ ev' = [NoEvent EXCEPT !.type = "permission_cancelled", !.sid = ws[w].sid, !.rid = r,
                             !.outcome = IF r \in PermsOf(ws[w].sid)
                                         THEN "removed" ELSE "absent"]
    /\ UNCHANGED <<connVars, taskVars>>
    /\ UNCHANGED serverQuiet
    /\ UNCHANGED frameVars
    /\ UNCHANGED <<cliConnected, sessionStatus, connectionStatus, selectVars>>

\* handleMessage, case "permission_cancelled"
HandleMessagePermissionCancelled(w, r) ==
    /\ ws[w].st = "open"
    /\ removePermission(ws[w].sid, r)
    /\ ev' = [NoEvent EXCEPT !.type = "permission_cancelled", !.sid = ws[w].sid, !.rid = r,
                             !.outcome = IF r \in PermsOf(ws[w].sid)
                                         THEN "removed" ELSE "absent"]
    /\ UNCHANGED <<connVars, taskVars, clientSent>>
    /\ UNCHANGED serverQuiet
    /\ UNCHANGED frameVars
    /\ UNCHANGED <<cliConnected, sessionStatus, connectionStatus, selectVars>>

\* The user answers a pending permission request: the response is sent and the
\* request leaves the store.
RespondPermission(s, r) ==
    /\ r \in PermsOf(s)
    /\ clientSent < MaxSent
    /\ sendToSession(s)
    /\ removePermission(s, r)
    /\ ev' = [NoEvent EXCEPT !.type = "client_response", !.sid = s, !.rid = r]
    /\ UNCHANGED <<connVars, taskVars>>
    /\ UNCHANGED serverQuiet
    /\ UNCHANGED frameVars
    /\ UNCHANGED <<cliConnected, sessionStatus, connectionStatus, selectVars>>

\* The browser client against a server that sends it any permission frames.
InitClient == InitRouter

NextClient ==
    \/ \E s \in Sids : ConnectSession(s)
    \/ \E w \in WsIds : WsOnOpen(w)
    \/ \E w \in WsIds : WsOnError(w)
    \/ \E w \in WsIds : WsOnClose(w)
    \/ \E s \in Sids, known \in BOOLEAN : ReconnectFire(s, known)
    \/ \E s \in Sids : disconnectSession(s)
    \/ \E w \in WsIds, r \in ReqIds, name \in ToolNames, toolUseId \in ToolUseIds,
          hasInput \in BOOLEAN :
            HandleMessagePermissionRequest(w, r, name, toolUseId, hasInput)
    \/ \E w \in WsIds, r \in ReqIds : HandleMessagePermissionCancelled(w, r)
    \/ \E s \in Sids, r \in ReqIds : RespondPermission(s, r)

SpecClient == InitClient /\ [][NextClient]_vars

\* ------------------------------------------------- browser client: frames
\* nextId(): `msg-${Date.now()}-${++idCounter}`
nextId == "msg-" \o ToString(idCounter + 1)

\* store.appendMessage that appends whatever the id.
appendMessage_NoDedup(s, msg) ==
    messages' = [messages EXCEPT ![s] = Append(@, msg)]

\* store.appendMessage(sessionId, msg): a message whose non-empty id is
\* already stored for the session is dropped.
appendMessage(s, msg) ==
    messages' = IF msg.id # "" /\ \E i \in 1..Len(messages[s]) : messages[s][i].id = msg.id
                THEN messages
                ELSE [messages EXCEPT ![s] = Append(@, msg)]

\* store.setMessages(sessionId, msgs)
setMessages(s, msgs) == messages' = [messages EXCEPT ![s] = msgs]

\* store.setStreaming(sessionId, text | null)
setStreaming(s, text) ==
    streaming' = IF text = Null THEN MapDelete(streaming, s) ELSE MapSet(streaming, s, text)

\* store.setStreamingStats(sessionId, stats | null): null clears both fields,
\* otherwise only the fields given are set.
setStreamingStats(s, stats) ==
    IF stats = NullStats
    THEN /\ streamingStartedAt' = MapDelete(streamingStartedAt, s)
         /\ streamingOutputTokens' = MapDelete(streamingOutputTokens, s)
    ELSE /\ streamingStartedAt' =
                IF "startedAt" \in DOMAIN stats
                THEN MapSet(streamingStartedAt, s, stats.startedAt)
                ELSE streamingStartedAt
         /\ streamingOutputTokens' =
                IF "outputTokens" \in DOMAIN stats
                THEN MapSet(streamingOutputTokens, s, stats.outputTokens)
                ELSE streamingOutputTokens

\* One iteration of the loop of extractTasksFromBlocks on the task state
\* st = [processed, counter, tasks] of a session.
extractTasksFromBlock(st, block) ==
    IF block.name = "" THEN st
    ELSE IF block.id # "" /\ block.id \in st.processed THEN st
    ELSE LET seen == IF block.id # "" THEN st.processed \cup {block.id} ELSE st.processed IN
         IF block.name = "TaskCreate"
         THEN [processed |-> seen, counter |-> st.counter + 1,
               tasks |-> Append(st.tasks, st.counter + 1)]
         ELSE [st EXCEPT !.processed = seen]

\* The task state of session s.
TaskState(s) ==
    [processed |-> processedToolUseIds[s], counter |-> taskCounters[s], tasks |-> sessionTasks[s]]

\* The task state st becomes that of session s.
SetTaskState(s, st) ==
    /\ processedToolUseIds' = [processedToolUseIds EXCEPT ![s] = st.processed]
    /\ taskCounters' = [taskCounters EXCEPT ![s] = st.counter]
    /\ sessionTasks' = [sessionTasks EXCEPT ![s] = st.tasks]

\* What the frame handlers leave alone.
frameFar == <<connVars, pendingPermissions, clientSent>>

\* The history entry the server keeps of an assistant frame.
HistEntry(id, content, block) ==
    [type |-> "assistant", id |-> id, content |-> content, block |-> block]

\* The chat message built from an assistant frame or history entry.
ChatMsg(id, content) == [id |-> id, role |-> "assistant", content |-> content]

\* handleMessage, case "assistant", leaving the streaming accumulator.
HandleMessageAssistant_KeepsStreaming(w, id, content, block) ==
    LET s == ws[w].sid
        st == extractTasksFromBlock(TaskState(s), block) IN
    /\ ws[w].st = "open"
    /\ Len(messages[s]) < MaxMsgs
    /\ Len(history[s]) < MaxMsgs
    /\ Len(st.tasks) <= MaxTasks
    /\ appendMessage(s, ChatMsg(id, content))
    /\ UNCHANGED streaming
    /\ IF s \notin DOMAIN streamingStartedAt
       THEN setStreamingStats(s, [startedAt |-> now])
       ELSE UNCHANGED <<streamingStartedAt, streamingOutputTokens>>
    /\ SetTaskState(s, st)
    /\ history' = [history EXCEPT ![s] = Append(@, HistEntry(id, content, block))]
    /\ ev' = [NoEvent EXCEPT !.type = "assistant", !.sid = s, !.mid = id,
                             !.outcome = IF s \in DOMAIN streaming THEN "cleared" ELSE "none"]
    /\ UNCHANGED <<idCounter, replayed>>
    /\ UNCHANGED frameFar
    /\ sessionStatus' = MapSet(sessionStatus, s, "running")
    /\ UNCHANGED <<cliConnected, connectionStatus, selectVars>>
    /\ UNCHANGED serverQuiet

\* handleMessage, case "assistant": the frame carries a message id, a text and
\* at most one tool_use block; the server has stored the frame in its history.
HandleMessageAssistant(w, id, content, block) ==
    LET s == ws[w].sid
        st == extractTasksFromBlock(TaskState(s), block) IN
    /\ ws[w].st = "open"
    /\ Len(messages[s]) < MaxMsgs
    /\ Len(history[s]) < MaxMsgs
    /\ Len(st.tasks) <= MaxTasks
    /\ appendMessage(s, ChatMsg(id, content))
    /\ setStreaming(s, Null)
    /\ IF s \notin DOMAIN streamingStartedAt
       THEN setStreamingStats(s, [startedAt |-> now])
       ELSE UNCHANGED <<streamingStartedAt, streamingOutputTokens>>
    /\ SetTaskState(s, st)
    /\ history' = [history EXCEPT ![s] = Append(@, HistEntry(id, content, block))]
    /\ ev' = [NoEvent EXCEPT !.type = "assistant", !.sid = s, !.mid = id,
                             !.outcome = IF s \in DOMAIN streaming THEN "cleared" ELSE "none"]
    /\ UNCHANGED <<idCounter, replayed>>
    /\ UNCHANGED frameFar
    /\ sessionStatus' = MapSet(sessionStatus, s, "running")
    /\ UNCHANGED <<cliConnected, connectionStatus, selectVars>>
    /\ UNCHANGED serverQuiet

\* handleMessage, case "stream_event", event type "message_start"
HandleMessageStreamStart(w) ==
    LET s == ws[w].sid IN
    /\ ws[w].st = "open"
    /\ IF s \notin DOMAIN streamingStartedAt
       THEN setStreamingStats(s, [startedAt |-> now, outputTokens |-> 0])
       ELSE UNCHANGED <<streamingStartedAt, streamingOutputTokens>>
    /\ ev' = [NoEvent EXCEPT !.type = "stream_event", !.sid = s]
    /\ UNCHANGED <<messages, streaming, idCounter, history, replayed, taskVars>>
    /\ UNCHANGED frameFar
    /\ UNCHANGED <<cliConnected, sessionStatus, connectionStatus, selectVars>>
    /\ UNCHANGED serverQuiet

\* stream_event / content_block_delta that also files the partial text as a message.
HandleMessageStreamDelta_Appends(w, text) ==
    LET s == ws[w].sid
        current == IF s \in DOMAIN streaming THEN streaming[s] ELSE <<>> IN
    /\ ws[w].st = "open"
    /\ Len(current) < MaxStream
    /\ setStreaming(s, Append(current, text))
    /\ appendMessage(s, ChatMsg("", text))
    /\ ev' = [NoEvent EXCEPT !.type = "stream_event", !.sid = s]
    /\ UNCHANGED <<streamingStartedAt, streamingOutputTokens, idCounter, history,
                   replayed, taskVars>>
    /\ UNCHANGED frameFar
    /\ UNCHANGED <<cliConnected, sessionStatus, connectionStatus, selectVars>>
    /\ UNCHANGED serverQuiet

\* handleMessage, case "stream_event", event type "content_block_delta" with a
\* text_delta: the text is appended to the accumulator.
HandleMessageStreamDelta(w, text) ==
    LET s == ws[w].sid
        current == IF s \in DOMAIN streaming THEN streaming[s] ELSE <<>> IN
    /\ ws[w].st = "open"
    /\ Len(current) < MaxStream
    /\ setStreaming(s, Append(current, text))
    /\ ev' = [NoEvent EXCEPT !.type = "stream_event", !.sid = s]
    /\ UNCHANGED <<messages, streamingStartedAt, streamingOutputTokens, idCounter, history,
                   replayed, taskVars>>
    /\ UNCHANGED frameFar
    /\ UNCHANGED <<cliConnected, sessionStatus, connectionStatus, selectVars>>
    /\ UNCHANGED serverQuiet

\* handleMessage, case "stream_event", event type "message_delta" with
\* usage.output_tokens = n (0: no count).
HandleMessageStreamUsage(w, n) ==
    LET s == ws[w].sid IN
    /\ ws[w].st = "open"
    /\ IF n # 0
       THEN setStreamingStats(s, [outputTokens |-> n])
       ELSE UNCHANGED <<streamingStartedAt, streamingOutputTokens>>
    /\ ev' = [NoEvent EXCEPT !.type = "stream_event", !.sid = s]
    /\ UNCHANGED <<messages, streaming, idCounter, history, replayed, taskVars>>
    /\ UNCHANGED frameFar
    /\ UNCHANGED <<cliConnected, sessionStatus, connectionStatus, selectVars>>
    /\ UNCHANGED serverQuiet

\* handleMessage, case "result", leaving the streaming statistics.
HandleMessageResult_KeepsStats(w, isError, nErrors) ==
    LET s == ws[w].sid IN
    /\ ws[w].st = "open"
    /\ (isError /\ nErrors > 0) => (Len(messages[s]) < MaxMsgs /\ idCounter < MaxIds)
    /\ setStreaming(s, Null)
    /\ UNCHANGED <<streamingStartedAt, streamingOutputTokens>>
    /\ IF isError /\ nErrors > 0
       THEN /\ appendMessage(s, [id |-> nextId, role |-> "system", content |-> "Error"])
            /\ idCounter' = idCounter + 1
       ELSE UNCHANGED <<messages, idCounter>>
    /\ ev' = [NoEvent EXCEPT !.type = "result", !.sid = s,
                             !.kind = IF isError THEN "is_error" ELSE "ok",
                             !.outcome = IF /\ s \in DOMAIN streaming
                                            /\ s \in DOMAIN streamingStartedAt
                                            /\ s \in DOMAIN streamingOutputTokens
                                         THEN "cleared" ELSE "none"]
    /\ UNCHANGED <<history, replayed, taskVars>>
    /\ UNCHANGED frameFar
    /\ sessionStatus' = MapSet(sessionStatus, s, "idle")
    /\ UNCHANGED <<cliConnected, connectionStatus, selectVars>>
    /\ UNCHANGED serverQuiet

\* handleMessage, case "result"; isError is r.is_error and nErrors is
\* r.errors?.length, 0 also when the frame has no errors field.
\* (store.updateSession, which merges cost and turn metrics, is outside the model.)
HandleMessageResult(w, isError, nErrors) ==
    LET s == ws[w].sid IN
    /\ ws[w].st = "open"
    /\ (isError /\ nErrors > 0) => (Len(messages[s]) < MaxMsgs /\ idCounter < MaxIds)
    /\ setStreaming(s, Null)
    /\ setStreamingStats(s, NullStats)
    /\ IF isError /\ nErrors > 0
       THEN /\ appendMessage(s, [id |-> nextId, role |-> "system", content |-> "Error"])
            /\ idCounter' = idCounter + 1
       ELSE UNCHANGED <<messages, idCounter>>
    /\ ev' = [NoEvent EXCEPT !.type = "result", !.sid = s,
                             !.kind = IF isError THEN "is_error" ELSE "ok",
                             !.outcome = IF /\ s \in DOMAIN streaming
                                            /\ s \in DOMAIN streamingStartedAt
                                            /\ s \in DOMAIN streamingOutputTokens
                                         THEN "cleared" ELSE "none"]
    /\ UNCHANGED <<history, replayed, taskVars>>
    /\ UNCHANGED frameFar
    /\ sessionStatus' = MapSet(sessionStatus, s, "idle")
    /\ UNCHANGED <<cliConnected, connectionStatus, selectVars>>
    /\ UNCHANGED serverQuiet

\* handleMessage on a frame that is not JSON, reporting the failure in the chat.
HandleMessageMalformed_AppendsError(w) ==
    /\ ws[w].st = "open"
    /\ Len(messages[ws[w].sid]) < MaxMsgs
    /\ appendMessage(ws[w].sid, [id |-> "", role |-> "system", content |-> "Error"])
    /\ ev' = [NoEvent EXCEPT !.type = "malformed", !.sid = ws[w].sid]
    /\ UNCHANGED <<streaming, streamingStartedAt, streamingOutputTokens, idCounter, history,
                   replayed, taskVars>>
    /\ UNCHANGED frameFar
    /\ UNCHANGED <<cliConnected, sessionStatus, connectionStatus, selectVars>>
    /\ UNCHANGED serverQuiet

\* handleMessage on a frame that is not JSON: JSON.parse throws, the catch returns.
HandleMessageMalformed(w) ==
    /\ ws[w].st = "open"
    /\ ev' = [NoEvent EXCEPT !.type = "malformed", !.sid = ws[w].sid]
    /\ UNCHANGED <<frameVars, taskVars>>
    /\ UNCHANGED frameFar
    /\ UNCHANGED <<cliConnected, sessionStatus, connectionStatus, selectVars>>
    /\ UNCHANGED serverQuiet

\* The loop of case "message_history" over entries i.. of the list: the task
\* state after extractTasksFromBlocks ran on each assistant entry.
RECURSIVE ReplayTasks(_, _, _)
ReplayTasks(st, entries, i) ==
    IF i > Len(entries) THEN st
    ELSE ReplayTasks(extractTasksFromBlock(st, entries[i].block), entries, i + 1)

\* handleMessage, case "message_history": the server sends the history it
\* holds for the session (assistant entries); the chat messages built from it
\* replace the stored ones, and tasks are extracted from every entry.
HandleMessageHistory(w) ==
    LET s == ws[w].sid
        entries == history[s]
        chatMessages == [i \in 1..Len(entries) |-> ChatMsg(entries[i].id, entries[i].content)]
        st == ReplayTasks(TaskState(s), entries, 1) IN
    /\ ws[w].st = "open"
    /\ Len(st.tasks) <= MaxTasks
    /\ IF Len(chatMessages) > 0 THEN setMessages(s, chatMessages) ELSE UNCHANGED messages
    /\ SetTaskState(s, st)
    /\ replayed' = [replayed EXCEPT ![s] = Len(entries)]
    /\ ev' = [NoEvent EXCEPT !.type = "message_history", !.sid = s]
    /\ UNCHANGED <<streaming, streamingStartedAt, streamingOutputTokens, idCounter, history>>
    /\ UNCHANGED frameFar
    /\ UNCHANGED <<cliConnected, sessionStatus, connectionStatus, selectVars>>
    /\ UNCHANGED serverQuiet

\* The agent sends an assistant frame while the client has no open socket for
\* the session: the server keeps it in the history.
AgentFrameWhileAway(s, id, content, block) ==
    /\ \A w \in WsIds : ~(ws[w].st = "open" /\ ws[w].sid = s)
    /\ Len(history[s]) < MaxMsgs
    /\ history' = [history EXCEPT ![s] = Append(@, HistEntry(id, content, block))]
    /\ ev' = NoEvent
    /\ UNCHANGED <<messages, streaming, streamingStartedAt, streamingOutputTokens, idCounter,
                   replayed, taskVars>>
    /\ UNCHANGED frameFar
    /\ UNCHANGED <<cliConnected, sessionStatus, connectionStatus, selectVars>>
    /\ UNCHANGED serverQuiet

\* The tool_use blocks of assistant frames: none, or a TaskCreate with an id.
FrameBlocks == {NoBlock} \cup {[name |-> "TaskCreate", id |-> i] : i \in ToolUseIds \ {""}}

\* The browser client following the sessions of FrameSids through the frames
\* of its turns: connection handling, assistant messages, stream events,
\* results and frames that are not JSON.
InitFrames == InitRouter

NextFrames ==
    \/ \E s \in FrameSids : ConnectSession(s)
    \/ \E w \in WsIds : WsOnOpen(w)
    \/ \E w \in WsIds : WsOnClose(w)
    \/ \E s \in FrameSids, known \in BOOLEAN : ReconnectFire(s, known)
    \/ \E s \in FrameSids : disconnectSession(s)
    \/ \E w \in WsIds, id \in MsgIds, content \in Contents :
          HandleMessageAssistant(w, id, content, NoBlock)
    \/ \E w \in WsIds : HandleMessageStreamStart(w)
    \/ \E w \in WsIds, text \in DeltaTexts : HandleMessageStreamDelta(w, text)
    \/ \E w \in WsIds, n \in TokenCounts : HandleMessageStreamUsage(w, n)
    \/ \E w \in WsIds, isError \in BOOLEAN, nErrors \in ErrorCounts :
          HandleMessageResult(w, isError, nErrors)
    \/ \E w \in WsIds : HandleMessageMalformed(w)

SpecFrames == InitFrames /\ [][NextFrames]_vars

\* The browser client following the sessions of FrameSids through attaches:
\* connection handling, assistant messages with tool_use blocks, and the
\* history snapshot the server sends.
NextReplay ==
    \/ \E s \in FrameSids : ConnectSession(s)
    \/ \E w \in WsIds : WsOnOpen(w)
    \/ \E w \in WsIds : WsOnError(w)
    \/ \E w \in WsIds : WsOnClose(w)
    \/ \E s \in FrameSids, known \in BOOLEAN : ReconnectFire(s, known)
    \/ \E s \in FrameSids : disconnectSession(s)
    \/ \E w \in WsIds, id \in MsgIds, block \in FrameBlocks :
          HandleMessageAssistant(w, id, "a", block)
    \/ \E w \in WsIds : HandleMessageHistory(w)
    \/ \E s \in FrameSids, id \in MsgIds, block \in FrameBlocks :
          AgentFrameWhileAway(s, id, "a", block)

SpecReplay == InitFrames /\ [][NextReplay]_vars

\* ------------------------------------------- browser client: agent signals
\* handleMessage, case "session_init": store.addSession keeps the messages the
\* session already has. (The generated session name is outside the model.)
HandleMessageSessionInit(w) ==
    LET s == ws[w].sid IN
    /\ ws[w].st = "open"
    /\ sessions' = sessions \cup {s}
    /\ cliConnected' = MapSet(cliConnected, s, TRUE)
    /\ sessionStatus' = MapSet(sessionStatus, s, "idle")
    /\ ev' = [NoEvent EXCEPT !.type = "session_init", !.sid = s]
    /\ UNCHANGED <<connectionStatus, currentSessionId, deleting, tornDown, connVars,
                   clientSent, pendingPermissions, taskVars, frameVars>>
    /\ UNCHANGED serverQuiet

\* handleMessage, case "cli_disconnected", which also drops the session's
\* pending permissions.
HandleMessageCliDisconnected_ClearsPermissions(w) ==
    LET s == ws[w].sid IN
    /\ ws[w].st = "open"
    /\ cliConnected' = MapSet(cliConnected, s, FALSE)
    /\ sessionStatus' = MapSet(sessionStatus, s, "null")
    /\ pendingPermissions' = MapDelete(pendingPermissions, s)
    /\ ev' = [NoEvent EXCEPT !.type = "cli_disconnected", !.sid = s]
    /\ UNCHANGED <<connectionStatus, selectVars, connVars, clientSent, taskVars, frameVars>>
    /\ UNCHANGED serverQuiet

\* handleMessage, case "cli_disconnected"
HandleMessageCliDisconnected(w) ==
    LET s == ws[w].sid IN
    /\ ws[w].st = "open"
    /\ cliConnected' = MapSet(cliConnected, s, FALSE)
    /\ sessionStatus' = MapSet(sessionStatus, s, "null")
    /\ UNCHANGED pendingPermissions
    /\ ev' = [NoEvent EXCEPT !.type = "cli_disconnected", !.sid = s]
    /\ UNCHANGED <<connectionStatus, selectVars, connVars, clientSent, taskVars, frameVars>>
    /\ UNCHANGED serverQuiet

\* handleMessage, case "cli_connected"
HandleMessageCliConnected(w) ==
    LET s == ws[w].sid IN
    /\ ws[w].st = "open"
    /\ cliConnected' = MapSet(cliConnected, s, TRUE)
    /\ ev' = [NoEvent EXCEPT !.type = "cli_connected", !.sid = s]
    /\ UNCHANGED <<sessionStatus, connectionStatus, selectVars, connVars, clientSent,
                   pendingPermissions, taskVars, frameVars>>
    /\ UNCHANGED serverQuiet

\* handleMessage on a JSON frame of an unrecognized type, closing the socket.
HandleMessageUnknown_Closes(w) ==
    /\ ws[w].st = "open"
    /\ ws' = [ws EXCEPT ![w].st = "closing"]
    /\ ev' = [NoEvent EXCEPT !.type = "unknown", !.sid = ws[w].sid]
    /\ UNCHANGED <<statusVars, selectVars, sockets, reconnectTimers, armedTimeouts, clientSent,
                   pendingPermissions, taskVars, frameVars>>
    /\ UNCHANGED serverQuiet

\* handleMessage on a JSON frame whose type no case of the switch names: the
\* switch has no default case.
HandleMessageUnknown(w) ==
    /\ ws[w].st = "open"
    /\ UNCHANGED ws
    /\ ev' = [NoEvent EXCEPT !.type = "unknown", !.sid = ws[w].sid]
    /\ UNCHANGED <<statusVars, selectVars, sockets, reconnectTimers, armedTimeouts, clientSent,
                   pendingPermissions, taskVars, frameVars>>
    /\ UNCHANGED serverQuiet

\* The browser client following the sessions of FrameSids while the agent
\* comes and goes: assistant messages with tasks, permission requests, the
\* agent-connectivity signals and frames of unrecognized types.
NextSignals ==
    \/ \E s \in FrameSids : ConnectSession(s)
    \/ \E w \in WsIds : WsOnOpen(w)
    \/ \E w \in WsIds : WsOnClose(w)
    \/ \E w \in WsIds, block \in FrameBlocks : HandleMessageAssistant(w, "", "a", block)
    \/ \E w \in WsIds, r \in ReqIds : HandleMessagePermissionRequest(w, r, "Bash", "", TRUE)
    \/ \E w \in WsIds : HandleMessageSessionInit(w)
    \/ \E w \in WsIds : HandleMessageCliDisconnected(w)
    \/ \E w \in WsIds : HandleMessageCliConnected(w)
    \/ \E w \in WsIds : HandleMessageUnknown(w)

SpecSignals == InitFrames /\ [][NextSignals]_vars

\* ------------------------------------------- browser client: session deletion
\* Sidebar.handleSelectSession(sessionId): disconnectSession(currentSessionId)
\* when one is selected, setCurrentSession, connectSession(sessionId).
handleSelectSession(s) ==
    LET cur == currentSessionId
        had == cur # NoSession /\ sockets[cur] # NoWs
        sockets1 == IF had THEN [sockets EXCEPT ![cur] = NoWs] ELSE sockets
        ws1 == IF had THEN [ws EXCEPT ![sockets[cur]].st = "closing"] ELSE ws IN
    /\ cur # s
    /\ clearReconnectTimer(cur)
    /\ processedToolUseIds' = [t \in Sids |-> IF t = cur THEN {} ELSE processedToolUseIds[t]]
    /\ taskCounters' = [t \in Sids |-> IF t = cur THEN 0 ELSE taskCounters[t]]
    /\ currentSessionId' = s
    /\ IF sockets1[s] # NoWs
       THEN /\ sockets' = sockets1
            /\ ws' = ws1
            /\ UNCHANGED connectionStatus
       ELSE /\ \E w \in DOMAIN ws :
                  /\ ws1[w].st = "free"
                  /\ \A v \in DOMAIN ws : v < w => ws1[v].st # "free"
                  /\ ws' = [ws1 EXCEPT ![w] = [st |-> "connecting", sid |-> s]]
                  /\ sockets' = [sockets1 EXCEPT ![s] = w]
            /\ connectionStatus' = MapSet(connectionStatus, s, "connecting")
    /\ tornDown' = (tornDown \cup ({cur} \cap Sids)) \ {s}
    /\ ev' = NoEvent
    /\ UNCHANGED <<sessions, deleting, cliConnected, sessionStatus>>
    /\ UNCHANGED <<sessionTasks, pendingPermissions, clientSent>>
    /\ UNCHANGED frameVars
    /\ UNCHANGED serverQuiet

\* Sidebar.handleDeleteSession(e, sessionId) up to its await:
\* disconnectSession(sessionId), then the call of api.deleteSession.
handleDeleteSession(s) ==
    /\ s \notin deleting
    /\ deleting' = deleting \cup {s}
    /\ tornDown' = tornDown \cup {s}
    /\ clearReconnectTimer(s)
    /\ IF sockets[s] # NoWs
       THEN /\ ws' = [ws EXCEPT ![sockets[s]].st = "closing"]
            /\ sockets' = [sockets EXCEPT ![s] = NoWs]
       ELSE UNCHANGED <<sockets, ws>>
    /\ processedToolUseIds' = [processedToolUseIds EXCEPT ![s] = {}]
    /\ taskCounters' = [taskCounters EXCEPT ![s] = 0]
    /\ ev' = [NoEvent EXCEPT !.type = "handleDeleteSession", !.sid = s]
    /\ UNCHANGED <<currentSessionId, sessions, statusVars>>
    /\ UNCHANGED <<sessionTasks, pendingPermissions, clientSent>>
    /\ UNCHANGED frameVars
    /\ UNCHANGED serverQuiet

\* store.removeSession(sessionId): deletes the session's key from every
\* per-session map; currentSessionId becomes null when it was the session.
removeSession(s) ==
    /\ sessions' = sessions \ {s}
    /\ messages' = [messages EXCEPT ![s] = <<>>]
    /\ streaming' = MapDelete(streaming, s)
    /\ streamingStartedAt' = MapDelete(streamingStartedAt, s)
    /\ streamingOutputTokens' = MapDelete(streamingOutputTokens, s)
    /\ pendingPermissions' = MapDelete(pendingPermissions, s)
    /\ sessionTasks' = [sessionTasks EXCEPT ![s] = <<>>]
    /\ connectionStatus' = MapDelete(connectionStatus, s)
    /\ cliConnected' = MapDelete(cliConnected, s)
    /\ sessionStatus' = MapDelete(sessionStatus, s)
    /\ currentSessionId' = IF currentSessionId = s THEN NoSession ELSE currentSessionId

\* Sidebar.handleDeleteSession after its await: api.deleteSession has
\* resolved or rejected, removeSession(sessionId) runs.
DeleteSessionSettle(s) ==
    /\ s \in deleting
    /\ deleting' = deleting \ {s}
    /\ removeSession(s)
    /\ ev' = [NoEvent EXCEPT !.type = "removeSession", !.sid = s]
    /\ UNCHANGED <<connVars, taskCounters, processedToolUseIds, clientSent, tornDown>>
    /\ UNCHANGED <<idCounter, history, replayed>>
    /\ UNCHANGED serverQuiet

\* The sessions the Sidebar lists.
DeleteSids == Sids

\* The browser client with a Sidebar: sessions are selected, their sockets
\* open and close, frames arrive, sessions are deleted. Assistant frames, each
\* with one TaskCreate block, arrive for the sessions of FrameSids.
NextDelete ==
    \/ \E s \in DeleteSids : handleSelectSession(s)
    \/ \E w \in WsIds : WsOnOpen(w)
    \/ \E w \in WsIds : WsOnClose(w)
    \/ \E s \in DeleteSids : ReconnectFire(s, currentSessionId = s \/ s \in sessions)
    \/ \E w \in WsIds : HandleMessageSessionInit(w)
    \/ \E w \in WsIds :
          /\ ws[w].sid \in FrameSids
          /\ HandleMessageAssistant(w, "", "a", [name |-> "TaskCreate", id |-> "tu1"])
    \/ \E s \in DeleteSids : handleDeleteSession(s)
    \/ \E s \in DeleteSids : DeleteSessionSettle(s)

SpecDelete == InitFrames /\ [][NextDelete]_vars

\* ------------------------------------------ browser client: session switching
\* Sidebar.handleNewSession(): disconnectSession(currentSessionId) when a
\* session is selected, then store.newSession(), which clears the selection.
handleNewSession ==
    LET cur == currentSessionId IN
    /\ cur # NoSession
    /\ clearReconnectTimer(cur)
    /\ IF sockets[cur] # NoWs
       THEN /\ ws' = [ws EXCEPT ![sockets[cur]].st = "closing"]
            /\ sockets' = [sockets EXCEPT ![cur] = NoWs]
       ELSE UNCHANGED <<sockets, ws>>
    /\ processedToolUseIds' = [processedToolUseIds EXCEPT ![cur] = {}]
    /\ taskCounters' = [taskCounters EXCEPT ![cur] = 0]
    /\ currentSessionId' = NoSession
    /\ tornDown' = tornDown \cup {cur}
    /\ ev' = NoEvent
    /\ UNCHANGED <<sessions, deleting, statusVars>>
    /\ UNCHANGED <<sessionTasks, pendingPermissions, clientSent>>
    /\ UNCHANGED frameVars
    /\ UNCHANGED serverQuiet

\* The page with up to MaxSwitchWs WebSocket objects.
InitSwitch == InitServerOver({[s \in Sids |-> "none"]}, SwitchWsIds)

\* The browser client under the Sidebar: the user selects sessions and opens
\* the new-session page while sockets open, close and reconnect.
NextSwitch ==
    \/ \E s \in Sids : handleSelectSession(s)
    \/ handleNewSession
    \/ \E w \in SwitchWsIds : WsOnOpen(w)
    \/ \E w \in SwitchWsIds : WsOnClose(w)
    \/ \E w \in SwitchWsIds : WsOnError(w)
    \/ \E s \in Sids : ReconnectFire(s, currentSessionId = s \/ s \in sessions)
    \/ \E w \in SwitchWsIds : HandleMessageSessionInit(w)

SpecSwitch == InitSwitch /\ [][NextSwitch]_vars

\* ---------------------------------------------------------------------------
\* Reconnection: sessions are opened and never disconnected by a caller, while
\* their sockets open, fail and close.
\* ---------------------------------------------------------------------------

\* The first selection in the Sidebar (no session is current yet, so
\* handleSelectSession disconnects nothing).
OpenSession(s) ==
    /\ currentSessionId = NoSession
    /\ handleSelectSession(s)

\* store.currentSessionId === sessionId || store.sessions.has(sessionId)
KnownToStore(s) == currentSessionId = s \/ s \in sessions

NextReconnect ==
    \/ \E s \in Sids : OpenSession(s)
    \/ \E s \in Sids : ConnectSession(s)
    \/ \E w \in SwitchWsIds : WsOnOpen(w)
    \/ \E w \in SwitchWsIds : WsOnClose(w)
    \/ \E w \in SwitchWsIds : WsOnError(w)
    \/ \E s \in Sids : ReconnectFire(s, KnownToStore(s))
    \/ \E w \in SwitchWsIds : HandleMessageSessionInit(w)

\* An armed setTimeout callback runs once its delay has passed.
ReconnectFairness == \A s \in Sids : WF_vars(ReconnectFire(s, KnownToStore(s)))

SpecReconnect == InitSwitch /\ [][NextReconnect]_vars /\ ReconnectFairness

\* ------------------------------------------------------------ push manager
\* What the push manager's functions leave alone.
pushFar == <<now, lstate, archived, bootState, sockVars, browserSock, odVars, wdVars,
             openedBeforeFire, routerVars, browserOut, procAlive, clientVars, tunnel, naming,
             access>>

\* The elements of a list.
Range(seq) == {seq[i] : i \in DOMAIN seq}

\* subs.findIndex((s) => s.endpoint === endpoint), 0 for -1
findIndex(subs, e) ==
    IF \E i \in DOMAIN subs : subs[i].endpoint = e
    THEN CHOOSE i \in DOMAIN subs :
            /\ subs[i].endpoint = e
            /\ \A j \in DOMAIN subs : subs[j].endpoint = e => i <= j
    ELSE 0

\* addSubscription(sub) that pushes without looking for the endpoint.
addSubscription_NoDedup(e, k) ==
    /\ subscriptions' = Append(subscriptions, [endpoint |-> e, keys |-> k])
    /\ UNCHANGED pushRuns
    /\ ev' = [NoEvent EXCEPT !.type = "addSubscription", !.mid = e, !.kind = k]
    /\ UNCHANGED pushFar

\* addSubscription(sub): load, replace the entry of the endpoint or push, save.
addSubscription(e, k) ==
    LET sub == [endpoint |-> e, keys |-> k]
        existing == findIndex(subscriptions, e) IN
    /\ subscriptions' = IF existing > 0
                        THEN [subscriptions EXCEPT ![existing] = sub]
                        ELSE Append(subscriptions, sub)
    /\ UNCHANGED pushRuns
    /\ ev' = [NoEvent EXCEPT !.type = "addSubscription", !.mid = e, !.kind = k]
    /\ UNCHANGED pushFar

\* removeSubscription(endpoint): load, filter, save if something went; the
\* return value is ev.outcome.
removeSubscription(e) ==
    LET filtered == SelectSeq(subscriptions, LAMBDA s : s.endpoint # e) IN
    /\ IF Len(filtered) = Len(subscriptions)
       THEN /\ UNCHANGED subscriptions
            /\ ev' = [NoEvent EXCEPT !.type = "removeSubscription", !.mid = e,
                                     !.outcome = "false"]
       ELSE /\ subscriptions' = filtered
            /\ ev' = [NoEvent EXCEPT !.type = "removeSubscription", !.mid = e,
                                     !.outcome = "true"]
    /\ UNCHANGED pushRuns
    /\ UNCHANGED pushFar

\* sendPushToAll(payload) to its await: load the subscriptions, return when
\* there is none, else start one send per subscription. The invocation takes
\* the lowest idle slot.
sendPushToAll(p) ==
    /\ pushRuns[p].st = "idle"
    /\ \A q \in PushIds : q < p => pushRuns[q].st # "idle"
    /\ IF Len(subscriptions) = 0
       THEN UNCHANGED pushRuns
       ELSE pushRuns' = [pushRuns EXCEPT ![p] =
                            [st |-> "sending", subs |-> subscriptions,
                             results |-> [i \in DOMAIN subscriptions |-> Pending],
                             expired |-> <<>>]]
    /\ ev' = NoEvent
    /\ UNCHANGED subscriptions
    /\ UNCHANGED pushFar

\* The send to subs[i] settles: webpush.sendNotification resolves (201) or
\* rejects with a statusCode; 410 and 404 put the endpoint on the expired list.
sendNotificationSettle(p, i, code) ==
    /\ pushRuns[p].st = "sending"
    /\ i \in DOMAIN pushRuns[p].subs
    /\ pushRuns[p].results[i] = Pending
    /\ pushRuns' = [pushRuns EXCEPT
                       ![p].results[i] = Settled,
                       ![p].expired = IF code \in {410, 404}
                                      THEN Append(@, pushRuns[p].subs[i].endpoint)
                                      ELSE @]
    /\ ev' = [NoEvent EXCEPT !.type = "sendNotification", !.rid = code,
                             !.mid = pushRuns[p].subs[i].endpoint]
    /\ UNCHANGED subscriptions
    /\ UNCHANGED pushFar

\* The end of sendPushToAll that filters the list it loaded before the sends.
sendPushToAllCleanup_FromSnapshot(p) ==
    LET run == pushRuns[p] IN
    /\ run.st = "sending"
    /\ \A i \in DOMAIN run.subs : run.results[i] # Pending
    /\ IF Len(run.expired) > 0
       THEN subscriptions' =
                SelectSeq(run.subs, LAMBDA s : s.endpoint \notin Range(run.expired))
       ELSE UNCHANGED subscriptions
    /\ pushRuns' = [pushRuns EXCEPT ![p] = IdleRun]
    /\ ev' = [NoEvent EXCEPT !.type = "sendPushToAll.cleanup", !.rid = p,
                             !.outcome = IF Len(run.expired) > 0 THEN "saved" ELSE "none",
                             !.kind = IF \E s \in Range(subscriptions) \ Range(run.subs) :
                                            s.endpoint \notin Range(run.expired)
                                      THEN "added" ELSE "-"]
    /\ UNCHANGED pushFar

\* sendPushToAll after Promise.allSettled: when an endpoint expired, load the
\* subscriptions again, drop the expired endpoints, save.
\* ev.outcome tells whether the list was saved, ev.kind whether a subscription
\* that was not in the list loaded before the sends was stored by then under
\* an endpoint that did not expire.
sendPushToAllCleanup(p) ==
    LET run == pushRuns[p] IN
    /\ run.st = "sending"
    /\ \A i \in DOMAIN run.subs : run.results[i] # Pending
    /\ IF Len(run.expired) > 0
       THEN subscriptions' =
                SelectSeq(subscriptions, LAMBDA s : s.endpoint \notin Range(run.expired))
       ELSE UNCHANGED subscriptions
    /\ pushRuns' = [pushRuns EXCEPT ![p] = IdleRun]
    /\ ev' = [NoEvent EXCEPT !.type = "sendPushToAll.cleanup", !.rid = p,
                             !.outcome = IF Len(run.expired) > 0 THEN "saved" ELSE "none",
                             !.kind = IF \E s \in Range(subscriptions) \ Range(run.subs) :
                                            s.endpoint \notin Range(run.expired)
                                      THEN "added" ELSE "-"]
    /\ UNCHANGED pushFar

\* Clients subscribe and unsubscribe while notifications are sent.
NextPush ==
    \/ \E e \in Endpoints, k \in KeySets : addSubscription(e, k)
    \/ \E e \in Endpoints : removeSubscription(e)
    \/ \E p \in PushIds : sendPushToAll(p)
    \/ \E p \in PushIds, i \in 1..Cardinality(Endpoints), code \in SendOutcomes :
          sendNotificationSettle(p, i, code)
    \/ \E p \in PushIds : sendPushToAllCleanup(p)

SpecPush == InitRouter /\ [][NextPush]_vars

\* ---------------------------------------------------------- tunnel manager
\* What the tunnel manager's methods leave alone.
tunnelFar == <<now, lstate, archived, bootState, sockVars, browserSock, odVars, wdVars,
               openedBeforeFire, routerVars, browserOut, procAlive, clientVars, pushVars,
               naming, access>>

\* The lowest invocation slot not in use.
FreeCall(c) ==
    /\ tunnel.calls[c].op = "idle"
    /\ \A d \in TunnelCallIds : d < c => tunnel.calls[d].op # "idle"

\* stop() from "const proc = this.process" to its await: the held process is
\* released and signalled; cont names what runs after stop() has resolved
\* ("stop": nothing, "start": the rest of start(), "restart": start()).
stopBegin(c, cont) ==
    [tunnel EXCEPT !.process = NoProc,
                   !.calls[c] = [op |-> cont, proc |-> tunnel.process]]

\* Bun.spawn can still be modelled: a start() that spawns needs an unused
\* process id.
CanSpawn(configured) == configured => tunnel.spawned < MaxTunnelProcs

\* start() from loadConfig() on, run on the manager t; configured is whether
\* loadConfig() returns a config (start() throws otherwise).
startBody(t, configured) ==
    IF configured
    THEN [t EXCEPT !.state = [status |-> "starting", connections |-> 0],
                   !.spawned = t.spawned + 1,
                   !.alive = t.alive \cup {t.spawned + 1},
                   !.process = t.spawned + 1]
    ELSE t

\* start()
TunnelStart(c, configured) ==
    /\ IF tunnel.process # NoProc
       THEN /\ FreeCall(c)
            /\ configured
            /\ tunnel' = stopBegin(c, "start")
       ELSE /\ c = 1
            /\ CanSpawn(configured)
            /\ tunnel' = startBody(tunnel, configured)
    /\ ev' = [NoEvent EXCEPT !.type = "tunnel.start"]
    /\ UNCHANGED tunnelFar

\* stop()
TunnelStop(c) ==
    /\ IF tunnel.process = NoProc
       THEN /\ c = 1
            /\ UNCHANGED tunnel
       ELSE /\ FreeCall(c)
            /\ tunnel' = stopBegin(c, "stop")
    /\ ev' = [NoEvent EXCEPT !.type = "tunnel.stop"]
    /\ UNCHANGED tunnelFar

\* restart()
TunnelRestart(c, configured) ==
    /\ IF tunnel.process # NoProc
       THEN /\ FreeCall(c)
            /\ configured
            /\ tunnel' = stopBegin(c, "restart")
       ELSE /\ c = 1
            /\ CanSpawn(configured)
            /\ tunnel' = startBody(tunnel, configured)
    /\ ev' = [NoEvent EXCEPT !.type = "tunnel.restart"]
    /\ UNCHANGED tunnelFar

\* stop() resumes once the process it signalled has exited (after SIGTERM, or
\* after the SIGKILL it sends 5 s later), assigns the stopped state, and its
\* caller goes on.
TunnelStopSettle(c, configured) ==
    LET call == tunnel.calls[c]
        stopped == [tunnel EXCEPT !.state = StoppedState]
        returned == [stopped EXCEPT !.calls[c] = IdleCall]
    IN
    /\ call.op # "idle"
    /\ call.proc \notin tunnel.alive
    /\ CASE call.op = "stop" ->
              /\ configured
              /\ tunnel' = returned
         [] call.op = "start" ->
              /\ CanSpawn(configured)
              /\ tunnel' = startBody(returned, configured)
         [] call.op = "restart" ->
              IF tunnel.process # NoProc
              THEN /\ configured
                   /\ tunnel' = [stopped EXCEPT
                                   !.process = NoProc,
                                   !.calls[c] = [op |-> "start", proc |-> tunnel.process]]
              ELSE /\ CanSpawn(configured)
                   /\ tunnel' = startBody(returned, configured)
    /\ ev' = [NoEvent EXCEPT !.type = "tunnel.stopped", !.rid = call.proc]
    /\ UNCHANGED tunnelFar

\* A cloudflared process exits and its proc.exited handler runs.
TunnelProcExited_NoCurrentCheck(p) ==
    /\ p \in tunnel.alive
    /\ tunnel' = [tunnel EXCEPT
          !.alive = @ \ {p},
          !.process = NoProc,
          !.state = IF tunnel.state.status # "stopped"
                    THEN [status |-> "error", connections |-> 0]
                    ELSE @]
    /\ ev' = [NoEvent EXCEPT !.type = "tunnel.exited", !.rid = p]
    /\ UNCHANGED tunnelFar

TunnelProcExited(p) ==
    /\ p \in tunnel.alive
    /\ tunnel' = IF tunnel.process = p
                 THEN [tunnel EXCEPT
                         !.alive = @ \ {p},
                         !.process = NoProc,
                         !.state = IF tunnel.state.status # "stopped"
                                   THEN [status |-> "error", connections |-> 0]
                                   ELSE @]
                 ELSE [tunnel EXCEPT !.alive = @ \ {p}]
    /\ ev' = [NoEvent EXCEPT !.type = "tunnel.exited", !.rid = p]
    /\ UNCHANGED tunnelFar

\* parseOutput(proc) reads a stderr line of a running process.
TunnelOutput(p, line) ==
    /\ p \in tunnel.alive
    /\ IF line = "Registered tunnel connection"
       THEN /\ tunnel.state.connections < MaxConnections
            /\ tunnel' = [tunnel EXCEPT
                  !.state = [status |-> "connected",
                             connections |-> tunnel.state.connections + 1]]
       ELSE tunnel' = [tunnel EXCEPT !.state.status = "reconnecting"]
    /\ ev' = [NoEvent EXCEPT !.type = "tunnel.output", !.rid = p]
    /\ UNCHANGED tunnelFar

NextTunnel ==
    \/ \E c \in TunnelCallIds, configured \in BOOLEAN : TunnelStart(c, configured)
    \/ \E c \in TunnelCallIds : TunnelStop(c)
    \/ \E c \in TunnelCallIds, configured \in BOOLEAN : TunnelRestart(c, configured)
    \/ \E c \in TunnelCallIds, configured \in BOOLEAN : TunnelStopSettle(c, configured)
    \/ \E p \in TunnelProcIds : TunnelProcExited(p)
    \/ \E p \in TunnelProcIds, line \in OutputLines : TunnelOutput(p, line)

SpecTunnel == InitRouter /\ [][NextTunnel]_vars

\* ------------------------------------------------------------- auto-naming
\* What session naming leaves alone.
nameFar == <<now, lstate, archived, bootState, sockVars, browserSock, odVars, wdVars,
             openedBeforeFire, routerVars, browserOut, procAlive, clientVars, pushVars,
             tunnel, access>>

\* sessionNames.getName(sessionId)
getName(s) == naming.sessionNames[s]

\* A manual rename through the REST layer: sessionNames.setName(id, name).
RenameSession(s, name) ==
    /\ naming' = [naming EXCEPT !.sessionNames[s] = name]
    /\ ev' = [NoEvent EXCEPT !.type = "rename", !.sid = s, !.mid = name]
    /\ UNCHANGED nameFar

\* The onFirstTurnCompleted callback up to its await; hasKey is whether
\* getSettings().openrouterApiKey.trim() is non-empty.
FirstTurnCompleted(s, hasKey) ==
    /\ naming.generating[s] < MaxNaming
    /\ naming' = IF getName(s) # NoName \/ ~hasKey
                 THEN naming
                 ELSE [naming EXCEPT !.generating[s] = @ + 1]
    /\ ev' = [NoEvent EXCEPT !.type = "firstTurnCompleted", !.sid = s,
                             !.outcome = IF getName(s) # NoName \/ ~hasKey
                                         THEN "skipped" ELSE "generating"]
    /\ UNCHANGED nameFar

\* generateSessionTitle resolves with title (NoName for null) and the callback
\* resumes.
TitleGenerated_NoRecheck(s, title) ==
    /\ naming.generating[s] > 0
    /\ IF title # NoName
       THEN /\ naming' = [naming EXCEPT !.generating[s] = @ - 1,
                                        !.sessionNames[s] = title,
                                        !.updates[s] = @ \cup {title}]
            /\ ev' = [NoEvent EXCEPT !.type = "titleGenerated", !.sid = s,
                                     !.mid = title, !.outcome = "named"]
       ELSE /\ naming' = [naming EXCEPT !.generating[s] = @ - 1]
            /\ ev' = [NoEvent EXCEPT !.type = "titleGenerated", !.sid = s,
                                     !.mid = title, !.outcome = "discarded"]
    /\ UNCHANGED nameFar

TitleGenerated(s, title) ==
    /\ naming.generating[s] > 0
    /\ IF title # NoName /\ getName(s) = NoName
       THEN /\ naming' = [naming EXCEPT !.generating[s] = @ - 1,
                                        !.sessionNames[s] = title,
                                        !.updates[s] = @ \cup {title}]
            /\ ev' = [NoEvent EXCEPT !.type = "titleGenerated", !.sid = s,
                                     !.mid = title, !.outcome = "named"]
       ELSE /\ naming' = [naming EXCEPT !.generating[s] = @ - 1]
            /\ ev' = [NoEvent EXCEPT !.type = "titleGenerated", !.sid = s,
                                     !.mid = title, !.outcome = "discarded"]
    /\ UNCHANGED nameFar

NextNaming ==
    \/ \E s \in Sids, name \in ManualNames : RenameSession(s, name)
    \/ \E s \in Sids, hasKey \in BOOLEAN : FirstTurnCompleted(s, hasKey)
    \/ \E s \in Sids, title \in Titles \cup {NoName} : TitleGenerated(s, title)

SpecNaming == InitRouter /\ [][NextNaming]_vars

\* ------------------------------------------------------- request admission
\* What request admission leaves alone.
accessFar == <<now, lstate, archived, bootState, sockVars, browserSock, odVars, wdVars,
               openedBeforeFire, routerVars, browserOut, procAlive, clientVars, pushVars,
               tunnel, naming>>

\* if (jwt): the header is there and not the empty string.
HasJwt(jwt) == jwt \notin {"absent", "empty"}

\* Where fetch goes once the request is admitted: server.upgrade for a
\* /ws/... path (400 when it fails), app.fetch otherwise.
Admit(kind, upgraded) ==
    IF kind = "ws"
    THEN IF upgraded THEN "upgraded" ELSE "upgradeFailed"
    ELSE "middleware"

\* A finished request's slot is taken by the next request.
Finished(r) ==
    access.reqs[r].pc \in {"free", "upgraded", "upgradeFailed", "handled", "denied"}

\* fetch(req, server) up to its await, or to its end when it does not verify.
Fetch(r, kind, jwt, upgraded) ==
    /\ Finished(r)
    /\ access' = [access EXCEPT !.reqs[r] =
          [kind |-> kind, jwt |-> jwt, failed |-> FALSE, cfAccessEmail |-> FALSE,
           pc |-> IF HasJwt(jwt) /\ access.teamDomain
                  THEN "fetchVerify"
                  ELSE Admit(kind, upgraded)]]
    /\ ev' = [NoEvent EXCEPT !.type = "fetch", !.rid = r]
    /\ UNCHANGED accessFar

\* verifyAccessJwt settles in fetch; ok is whether it resolved.
FetchVerified_IgnoresFailure(r, ok, upgraded) ==
    /\ access.reqs[r].pc = "fetchVerify"
    /\ ok => access.reqs[r].jwt = "valid"
    /\ access' = [access EXCEPT
          !.reqs[r].pc = Admit(access.reqs[r].kind, upgraded),
          !.reqs[r].failed = ~ok]
    /\ ev' = [NoEvent EXCEPT !.type = "fetch.verified", !.rid = r,
                             !.outcome = IF ok THEN "ok" ELSE "failed"]
    /\ UNCHANGED accessFar

FetchVerified(r, ok, upgraded) ==
    /\ access.reqs[r].pc = "fetchVerify"
    /\ ok => access.reqs[r].jwt = "valid"
    /\ access' = [access EXCEPT
          !.reqs[r].pc = IF ok THEN Admit(access.reqs[r].kind, upgraded) ELSE "denied",
          !.reqs[r].failed = ~ok]
    /\ ev' = [NoEvent EXCEPT !.type = "fetch.verified", !.rid = r,
                             !.outcome = IF ok THEN "ok" ELSE "failed"]
    /\ UNCHANGED accessFar

\* cfAccessMiddleware up to its await, or to next() when it does not verify.
cfAccessMiddleware(r) ==
    /\ access.reqs[r].pc = "middleware"
    /\ access' = [access EXCEPT
          !.reqs[r].pc = IF access.teamDomain /\ HasJwt(access.reqs[r].jwt)
                         THEN "middlewareVerify"
                         ELSE "handled"]
    /\ ev' = [NoEvent EXCEPT !.type = "middleware", !.rid = r]
    /\ UNCHANGED accessFar

\* verifyAccessJwt settles in the middleware: next() or the 403 response;
\* email is whether the token's payload has one.
MiddlewareVerified(r, ok, email) ==
    /\ access.reqs[r].pc = "middlewareVerify"
    /\ ok => access.reqs[r].jwt = "valid"
    /\ email => ok
    /\ access' = [access EXCEPT
          !.reqs[r].pc = IF ok THEN "handled" ELSE "denied",
          !.reqs[r].failed = ~ok,
          !.reqs[r].cfAccessEmail = email]
    /\ ev' = [NoEvent EXCEPT !.type = "middleware.verified", !.rid = r,
                             !.outcome = IF ok THEN "ok" ELSE "failed"]
    /\ UNCHANGED accessFar

\* The tunnel configuration file is written or removed (loadConfig reads it
\* on every request).
ConfigChanged ==
    /\ access' = [access EXCEPT !.teamDomain = ~@]
    /\ ev' = [NoEvent EXCEPT !.type = "config"]
    /\ UNCHANGED accessFar

NextAccess ==
    \/ \E r \in AccessReqIds, kind \in RequestKinds, jwt \in JwtHeaders, upgraded \in BOOLEAN :
          Fetch(r, kind, jwt, upgraded)
    \/ \E r \in AccessReqIds, ok \in BOOLEAN, upgraded \in BOOLEAN :
          FetchVerified(r, ok, upgraded)
    \/ \E r \in AccessReqIds : cfAccessMiddleware(r)
    \/ \E r \in AccessReqIds, ok \in BOOLEAN, email \in BOOLEAN :
          MiddlewareVerified(r, ok, email)
    \/ ConfigChanged

SpecAccess == InitRouter /\ [][NextAccess]_vars

\* ------------------------------------------------- bridge: browser attach
\* A broadcast that puts the message ahead of the live events already sent.
broadcastToBrowsers_NewestFirst(s, msg) ==
    browserOut' = [b \in BrowserIds |->
                     IF browserSock[b].st = "open" /\ browserSock[b].sid = s
                     THEN <<Head(browserOut[b]), msg>> \o Tail(browserOut[b])
                     ELSE browserOut[b]]

\* The bridge sends msg to every browser attached to session s, after what it
\* has sent them before.
broadcastToBrowsers(s, msg) ==
    browserOut' = [b \in BrowserIds |->
                     IF browserSock[b].st = "open" /\ browserSock[b].sid = s
                     THEN Append(browserOut[b], msg)
                     ELSE browserOut[b]]

\* websocket.message, data.kind === "cli": an assistant frame. The bridge keeps
\* it in the session's history and broadcasts it to the browsers attached to
\* the session.
WsMessageCliAssistant(k) ==
    LET s == sock[k].sid
        n == Len(history[s]) + 1 IN
    /\ sock[k].st = "open"
    /\ n <= MaxMsgs
    /\ \A b \in BrowserIds :
          (browserSock[b].st = "open" /\ browserSock[b].sid = s) => Len(browserOut[b]) < MaxOut
    /\ history' = [history EXCEPT ![s] = Append(@, HistEntry("", "a", NoBlock))]
    /\ broadcastToBrowsers(s, LiveEvent(n))
    /\ ev' = NoEvent
    /\ UNCHANGED <<now, lstate, archived, bootState, sockVars, browserSock, odVars, wdVars,
                   openedBeforeFire, routerVars, procAlive, sideVars>>
    /\ UNCHANGED <<connVars, taskVars, pendingPermissions, clientSent, messages, streaming,
                   streamingStartedAt, streamingOutputTokens, idCounter, replayed>>
    /\ UNCHANGED <<statusVars, selectVars>>

\* Browsers attaching to sessions whose agents send frames.
NextAttach ==
    \/ \E i \in SockIds \cap DOMAIN SidSeq : WsOpenCli(i, SidSeq[i])
    \/ \E k \in SockIds : WsCloseCli(k)
    \/ \E b \in BrowserIds, s \in Sids : WsOpenBrowser(b, s)
    \/ \E b \in BrowserIds : WsCloseBrowser(b)
    \/ \E k \in SockIds : WsMessageCliAssistant(k)

SpecAttach == InitRouter /\ [][NextAttach]_vars

\* -------------------------------------------------------------- bridge claims
\* C1: at every instant the only open agent socket of a session is the one
\* most recently passed to handleCLIOpen, it is the registered one, and every
\* agent socket attached to the session before it has been closed.
C1_AtMostOneAgentConnection ==
    \A s \in Sids :
        /\ \A k \in SockIds :
              (sock[k].st = "open" /\ sock[k].sid = s) =>
                  (k = cliSocket[s] /\ k = lastAttached[s])
        /\ cliSocket[s] # NoSock =>
              (cliSocket[s] = lastAttached[s] /\ sock[cliSocket[s]].sid = s)

\* A second agent socket attached to a session and superseded the first, which
\* is being closed.
C1_Witness ==
    \E s \in Sids : \E k \in SockIds :
        /\ cliSocket[s] \notin {NoSock, k}
        /\ sock[cliSocket[s]] = [st |-> "open", sid |-> s]
        /\ sock[k] = [st |-> "closing", sid |-> s]

\* C8: a browser response naming a request id that is not pending is rejected:
\* the step leaves the pending map, the relays to the agent and the agent
\* registry and sockets as they were.
C8_NonPendingResponseRejected ==
    [][(ev'.type = "permission_response" /\ ev'.rid \notin routerPending[ev'.sid]) =>
          /\ ev'.outcome = "rejected"
          /\ routerPending' = routerPending
          /\ relayed' = relayed
          /\ sockVars' = sockVars]_vars

\* A response to an already answered request was rejected while the agent was
\* attached and another request was pending.
C8_Witness ==
    /\ ev.type = "permission_response"
    /\ ev.outcome = "rejected"
    /\ reqHistory[ev.sid][ev.rid] = "answered"
    /\ cliSocket[ev.sid] # NoSock
    /\ routerPending[ev.sid] # {}

\* C9: a response is relayed to the agent only for a pending request, at most
\* once per request, and the step removes exactly that request from the
\* pending map, leaving the other pending requests of every session.
C9_ResolvedAtMostOnce ==
    [][\A s \in Sids : \A r \in ReqIds :
          relayed'[s][r] # relayed[s][r] =>
              /\ relayed[s][r] = 0
              /\ relayed'[s][r] = 1
              /\ r \in routerPending[s]
              /\ routerPending' = [routerPending EXCEPT ![s] = @ \ {r}]]_vars

\* Two requests were pending together; the later one was answered first, the
\* earlier one is still pending, and a second response to the answered one
\* was then turned down.
C9_Witness ==
    /\ ev.type = "permission_response"
    /\ ev.outcome = "rejected"
    /\ ev.rid = 2
    /\ relayed[ev.sid][2] = 1
    /\ 1 \in routerPending[ev.sid]
    /\ cliSocket[ev.sid] # NoSock

\* ------------------------------------------------------------ recovery claims
\* A browser socket for session s is opened by this step.
BrowserAttached(s) ==
    \E b \in BrowserIds : /\ browserSock[b].st = "free"
                          /\ browserSock'[b] = [st |-> "open", sid |-> s]

\* The sessions in the list the watchdog read when its timer fired.
StaleSids == {wdStale[i] : i \in 1..Len(wdStale)}

\* C2: while an on-demand launcher.relaunch for a session is in flight, further
\* relaunch-needed triggers for it start no second call: at most one on-demand
\* relaunch per session is awaited at any time.
C2_OneOnDemandRelaunchInFlight == \A s \in Sids : odInFlight[s] <= 1

\* A relaunch-needed trigger fired for a session whose relaunch is in flight
\* and called nothing.
C2_Witness ==
    /\ ev.type = "browser_open"
    /\ ~ev.relaunched
    /\ cliSocket[ev.sid] = NoSock
    /\ odInFlight[ev.sid] = 1

\* C3: a restored session that is still starting when the grace timer fires
\* (its agent did not reconnect) and is not archived has been relaunched by
\* the watchdog exactly once when the watchdog is through, and the watchdog
\* calls launcher.relaunch only once RECONNECT_GRACE_MS have elapsed.
C3_ExactlyOneWatchdogRelaunch ==
    \A s \in Sids :
        /\ wdCalls[s] > 0 => now >= RECONNECT_GRACE_MS
        /\ (/\ wdPc \in {"done", "aborted"}
            /\ bootState[s] = "starting"
            /\ s \in StaleSids
            /\ ~openedBeforeFire[s]
            /\ ~archived[s]) => wdCalls[s] = 1

\* C4: a restored session whose agent socket opened before the grace timer
\* fired is not relaunched by the watchdog.
C4_NoWatchdogRelaunchAfterReconnect ==
    \A s \in Sids : openedBeforeFire[s] => wdCalls[s] = 0

\* C5: no step passes an archived session to launcher.relaunch, neither from
\* the relaunch-needed callback nor from the watchdog.
C5_ArchivedNeverAutoRelaunched ==
    [][\A s \in Sids : archived[s] =>
          /\ odInFlight'[s] <= odInFlight[s]
          /\ wdCalls'[s] = wdCalls[s]]_vars

\* The watchdog skipped a stale archived session, and later the callback ran
\* for it while nothing but the archived flag kept it from relaunching.
C5_Witness ==
    /\ ev.type = "browser_open"
    /\ ~ev.relaunched
    /\ archived[ev.sid]
    /\ cliSocket[ev.sid] = NoSock
    /\ lstate[ev.sid] = "exited"
    /\ ev.sid \notin relaunchingSet
    /\ wdPc = "done"
    /\ ev.sid \in StaleSids
    /\ wdCalls[ev.sid] = 0

C7_NoOnDemandRelaunchDuringCooldown ==
    (ev.type = "browser_open" /\ ev.relaunched) =>
        /\ coolUntil[ev.sid] = -1
        /\ odInFlight[ev.sid] = 1

\* A browser re-attached within the cooldown window of a settled attempt, to a
\* session that otherwise qualified, and nothing was called.
C7_Witness ==
    /\ ev.type = "browser_open"
    /\ ~ev.relaunched
    /\ cliSocket[ev.sid] = NoSock
    /\ ~archived[ev.sid]
    /\ lstate[ev.sid] \in {"connected", "exited"}
    /\ odInFlight[ev.sid] = 0
    /\ coolUntil[ev.sid] # -1

\* ------------------------------------------------------------ client claims
\* C10: handling a permission cancellation for request id r removes r from
\* the session's pending permissions, sends nothing to the server, and leaves
\* every other pending request of the session and the pending requests of
\* every other session as they were.
C10_CancellationRemovesOnlyThatRequest ==
    [][ev'.type = "permission_cancelled" =>
          /\ clientSent' = clientSent
          /\ DOMAIN pendingPermissions' = DOMAIN pendingPermissions
          /\ ev'.sid \in DOMAIN pendingPermissions' =>
                ev'.rid \notin pendingPermissions'[ev'.sid]
          /\ \A t \in DOMAIN pendingPermissions :
                pendingPermissions'[t] =
                    IF t = ev'.sid
                    THEN pendingPermissions[t] \ {ev'.rid}
                    ELSE pendingPermissions[t]]_vars

\* A cancellation removed one of two coexisting requests of a session whose
\* socket was open, while another session had a pending request too.
C10_Witness ==
    /\ ev.type = "permission_cancelled"
    /\ ev.outcome = "removed"
    /\ sockets[ev.sid] # NoWs
    /\ ws[sockets[ev.sid]].st = "open"
    /\ PermsOf(ev.sid) # {}
    /\ \E t \in Sids \ {ev.sid} : PermsOf(t) # {}

\* ------------------------------------------------------- frame-handling claims
\* C11: the stored messages of a session never share a non-empty id; an
\* assistant frame whose non-empty id is already stored leaves the list as it
\* is (the first message appended with the id is the one kept), and any other
\* message, in particular one without an id, is appended at the end.
C11_AppendDeduplicatesById ==
    /\ [](\A s \in Sids : \A i, j \in 1..Len(messages[s]) :
             (i # j /\ messages[s][i].id # "") => messages[s][i].id # messages[s][j].id)
    /\ [][ev'.type = "assistant" =>
            LET m == messages[ev'.sid]
                n == messages'[ev'.sid] IN
            IF ev'.mid # "" /\ \E i \in 1..Len(m) : m[i].id = ev'.mid
            THEN n = m
            ELSE /\ Len(n) = Len(m) + 1
                 /\ SubSeq(n, 1, Len(m)) = m
                 /\ n[Len(n)].id = ev'.mid]_vars

\* A second assistant frame carried the id of a stored message with another
\* text: the stored message is still the first one.
C11_Witness ==
    /\ ev.type = "assistant"
    /\ ev.mid = "m1"
    /\ Len(messages[ev.sid]) = 1
    /\ Len(history[ev.sid]) = 2
    /\ history[ev.sid][1].id = "m1"
    /\ history[ev.sid][2].id = "m1"
    /\ history[ev.sid][2].content # history[ev.sid][1].content
    /\ messages[ev.sid][1].content = history[ev.sid][1].content

\* The ids of the TaskCreate invocations the server's history of s holds.
TaskCreateIds(s) ==
    {history[s][i].block.id : i \in {j \in 1..Len(history[s]) : history[s][j].block.name = "TaskCreate"}}

\* C12: a tool-invocation id yields at most one task mutation, whether it is met
\* in an assistant frame or in a history entry: the task list of a session
\* holds at most one task per TaskCreate invocation id the session has seen.
C12_OneTaskPerToolUseId ==
    \A s \in Sids : Len(sessionTasks[s]) <= Cardinality(TaskCreateIds(s))

\* C13: a message_history frame replaying the snapshot the client has already
\* replayed for the session, also after a disconnect and reconnect, leaves the
\* session's task list as it was.
C13_SecondReplayKeepsTasks ==
    [][(ev'.type = "message_history" /\ replayed[ev'.sid] = Len(history[ev'.sid]))
          => sessionTasks'[ev'.sid] = sessionTasks[ev'.sid]]_vars

\* C14: on every browser connection the first session-state message sent is
\* the snapshot of the session, taken when the browser attached; every live
\* event sent on the connection comes after it and broadcasts a history entry
\* the snapshot did not hold.
C14_SnapshotBeforeLiveEvents ==
    \A b \in BrowserIds :
        browserOut[b] # <<>> =>
            /\ browserOut[b][1].kind = "snapshot"
            /\ \A i \in 2..Len(browserOut[b]) :
                  /\ browserOut[b][i].kind = "event"
                  /\ browserOut[b][i].n > browserOut[b][1].n

\* A browser attached after the agent had sent a frame and was sent the frame
\* that followed as a live event.
C14_Witness ==
    \E b \in BrowserIds :
        /\ Len(browserOut[b]) = 2
        /\ browserOut[b][1].n = 1
        /\ browserOut[b][2] = LiveEvent(2)

\* C15: a frame that is not JSON changes nothing the client keeps (no message,
\* no streaming state, no task, no permission, no socket, nothing sent), and
\* frame handling goes on: the assistant frame handled right after it, whose id
\* is not stored yet, appends exactly one message.
C15_MalformedFrameChangesNothing ==
    /\ [][ev'.type = "malformed" => clientVars' = clientVars]_vars
    /\ [][(ev.type = "malformed" /\ ev'.type = "assistant"
             /\ \A i \in 1..Len(messages[ev'.sid]) : messages[ev'.sid][i].id # ev'.mid)
            => /\ Len(messages'[ev'.sid]) = Len(messages[ev'.sid]) + 1
               /\ SubSeq(messages'[ev'.sid], 1, Len(messages[ev'.sid])) = messages[ev'.sid]]_vars

\* A frame that is not JSON was handled on an open socket of a session that
\* has a stored message and text in its streaming accumulator.
C15_Witness ==
    /\ ev.type = "malformed"
    /\ messages[ev.sid] # <<>>
    /\ ev.sid \in DOMAIN streaming
    /\ \E w \in WsIds : ws[w].st = "open" /\ ws[w].sid = ev.sid

\* C16: once a result frame is handled the session has no streaming
\* accumulator, no start timestamp and no output-token counter.
C16_ResultClearsStreaming ==
    ev.type = "result" =>
        /\ ev.sid \notin DOMAIN streaming
        /\ ev.sid \notin DOMAIN streamingStartedAt
        /\ ev.sid \notin DOMAIN streamingOutputTokens

\* A result frame was handled while the session had accumulated text, a start
\* timestamp and a token counter.
C16_Witness ==
    /\ ev.type = "result"
    /\ ev.outcome = "cleared"
    /\ ev.sid \notin DOMAIN streaming

\* C17: handling a stream_event frame leaves the message list of every session
\* as it was, and the tasks and pending permissions too; only the streaming
\* accumulator, the start timestamp and the token counter may change.
C17_StreamEventKeepsMessages ==
    [][ev'.type = "stream_event" =>
          /\ messages' = messages
          /\ taskVars' = taskVars
          /\ pendingPermissions' = pendingPermissions
          /\ idCounter' = idCounter]_vars

\* Two text deltas were accumulated for a session that has a stored message.
C17_Witness ==
    /\ ev.type = "stream_event"
    /\ ev.sid \in DOMAIN streaming
    /\ Len(streaming[ev.sid]) = 2
    /\ Len(messages[ev.sid]) = 1

C19_NoStaleStreamAfterReconnect ==
    [][\A w \in WsIds :
          (ws[w].st = "connecting" /\ ws'[w].st = "open")
              => ws[w].sid \notin DOMAIN streaming']_vars

C21_AgentDisconnectKeepsSessionState ==
    [][ev'.type = "cli_disconnected" =>
          /\ cliConnected'[ev'.sid] = FALSE
          /\ messages' = messages
          /\ pendingPermissions' = pendingPermissions
          /\ taskVars' = taskVars
          /\ sessions' = sessions
          /\ <<streaming, streamingStartedAt, streamingOutputTokens>>'
                = <<streaming, streamingStartedAt, streamingOutputTokens>>]_vars

\* The agent of a session with a message, a task and a pending permission
\* disconnected after it had been reported connected.
C21_Witness ==
    /\ ev.type = "cli_disconnected"
    /\ ev.sid \in sessions
    /\ cliConnected[ev.sid] = FALSE
    /\ messages[ev.sid] # <<>>
    /\ sessionTasks[ev.sid] # <<>>
    /\ PermsOf(ev.sid) # {}
    /\ sessionStatus[ev.sid] = "null"

\* The positions of the live events in what was sent on browser connection b.
EventPositions(b) == {i \in 1..Len(browserOut[b]) : browserOut[b][i].kind = "event"}

C24_ErrorResultAppendsMessage ==
    [][ev'.type = "result" =>
          LET m == messages[ev'.sid]
              n == messages'[ev'.sid] IN
          IF ev'.kind = "is_error"
          THEN /\ Len(n) = Len(m) + 1
               /\ SubSeq(n, 1, Len(m)) = m
               /\ n[Len(n)].role = "system"
          ELSE n = m]_vars

\* C25: a JSON frame of an unrecognized type is ignored: nothing the client
\* keeps changes (messages, permissions, tasks, streaming state, statuses,
\* session list, timers, frames sent) and the socket it came on stays open.
C25_UnknownFrameIgnored ==
    [][ev'.type = "unknown" =>
          /\ clientVars' = clientVars
          /\ \E w \in WsIds : ws'[w].st = "open" /\ ws'[w].sid = ev'.sid]_vars

\* A frame of an unrecognized type was handled for a session that has a
\* message, a task, a pending permission and a run state.
C25_Witness ==
    /\ ev.type = "unknown"
    /\ messages[ev.sid] # <<>>
    /\ sessionTasks[ev.sid] # <<>>
    /\ PermsOf(ev.sid) # {}
    /\ ev.sid \in DOMAIN sessionStatus
    /\ sessionStatus[ev.sid] = "running"
    /\ ev.sid \in DOMAIN cliConnected
    /\ cliConnected[ev.sid] = TRUE

\* The client holds something for session s: a key in a store map, or in the
\* client's dedup and counter maps.
HasSessionState(s) ==
    \/ s \in sessions
    \/ messages[s] # <<>>
    \/ s \in DOMAIN streaming
    \/ s \in DOMAIN streamingStartedAt
    \/ s \in DOMAIN streamingOutputTokens
    \/ s \in DOMAIN pendingPermissions
    \/ sessionTasks[s] # <<>>
    \/ s \in DOMAIN connectionStatus
    \/ s \in DOMAIN cliConnected
    \/ s \in DOMAIN sessionStatus
    \/ processedToolUseIds[s] # {}
    \/ taskCounters[s] # 0

\* C26: when handleDeleteSession has run disconnectSession(s) and then
\* removeSession(s), the client holds no per-session state for s, neither in a
\* store map nor in the dedup and counter maps; currentSessionId is cleared
\* only if it was s; the entries of the other sessions are as before.
C26_DeleteLeavesNoSessionState ==
    [][\A s \in Sids :
          (ev'.type = "removeSession" /\ ev'.sid = s) =>
              /\ ~HasSessionState(s)'
              /\ currentSessionId' = IF currentSessionId = s
                                     THEN NoSession ELSE currentSessionId
              /\ \A t \in Sids \ {s} :
                    /\ (t \in sessions') = (t \in sessions)
                    /\ messages'[t] = messages[t]
                    /\ sessionTasks'[t] = sessionTasks[t]
                    /\ processedToolUseIds'[t] = processedToolUseIds[t]
                    /\ taskCounters'[t] = taskCounters[t]
                    /\ (t \in DOMAIN connectionStatus') = (t \in DOMAIN connectionStatus)
                    /\ (t \in DOMAIN cliConnected') = (t \in DOMAIN cliConnected)
                    /\ (t \in DOMAIN sessionStatus') = (t \in DOMAIN sessionStatus)]_vars

\* C27: the stored push subscriptions hold at most one entry per endpoint;
\* after addSubscription the entry of the endpoint carries the keys just
\* given; removeSubscription of an endpoint that is not stored returns false
\* and leaves the list unchanged.
C27_OneSubscriptionPerEndpoint ==
    [][/\ \A i, j \in DOMAIN subscriptions' :
             subscriptions'[i].endpoint = subscriptions'[j].endpoint => i = j
       /\ ev'.type = "addSubscription" =>
             \E i \in DOMAIN subscriptions' :
                /\ subscriptions'[i].endpoint = ev'.mid
                /\ subscriptions'[i].keys = ev'.kind
       /\ (/\ ev'.type = "removeSubscription"
           /\ \A i \in DOMAIN subscriptions : subscriptions[i].endpoint # ev'.mid) =>
             /\ ev'.outcome = "false"
             /\ subscriptions' = subscriptions]_vars

\* An endpoint stored under keys k1 was added again under keys k2, and the
\* removal of an endpoint that is not stored was refused.
C27_Witness ==
    /\ Len(subscriptions) = 1
    /\ subscriptions[1].keys = "k2"
    /\ ev.type = "removeSubscription"
    /\ ev.outcome = "false"
    /\ \E p \in PushIds : pushRuns[p].st = "sending" /\ pushRuns[p].subs[1].keys = "k1"

\* C28: the cleanup of sendPushToAll removes from the stored subscriptions
\* exactly the endpoints whose send failed with 410 or 404 and keeps every
\* other subscription; in particular a subscription stored while the sends
\* were in flight (one that was not in the list loaded before the sends) is
\* still stored after the cleanup.
C28_CleanupKeepsSubscriptionsAddedInFlight ==
    [][\A p \in PushIds :
          (ev'.type = "sendPushToAll.cleanup" /\ ev'.rid = p) =>
              /\ \A i \in DOMAIN subscriptions :
                    subscriptions[i].endpoint \notin Range(pushRuns[p].expired)
                        => subscriptions[i] \in Range(subscriptions')
              /\ \A i \in DOMAIN subscriptions' :
                    subscriptions'[i].endpoint \notin Range(pushRuns[p].expired)
              /\ \A i \in DOMAIN subscriptions :
                    subscriptions[i] \notin Range(pushRuns[p].subs)
                        => subscriptions[i] \in Range(subscriptions')]_vars

\* C28 (amended): a send's endpoint is put on the expired list exactly when it
\* failed with 410 or 404; the cleanup removes every stored subscription of
\* an expired endpoint, also one stored while the sends were in flight, keeps
\* every other stored subscription, in order, and stores nothing else.
C28_CleanupRemovesByEndpoint ==
    [][/\ ev'.type = "sendNotification" =>
             \E p \in PushIds :
                /\ pushRuns'[p] # pushRuns[p]
                /\ pushRuns'[p].expired =
                      IF ev'.rid \in {404, 410}
                      THEN Append(pushRuns[p].expired, ev'.mid)
                      ELSE pushRuns[p].expired
       /\ \A p \in PushIds :
             (ev'.type = "sendPushToAll.cleanup" /\ ev'.rid = p) =>
                 /\ \A i \in DOMAIN subscriptions :
                       (subscriptions[i] \in Range(subscriptions'))
                           <=> (subscriptions[i].endpoint \notin Range(pushRuns[p].expired))
                 /\ Range(subscriptions') \subseteq Range(subscriptions)
                 /\ Len(subscriptions') <= Len(subscriptions)]_vars

\* A cleanup has saved the list: an expired endpoint went, and a subscription
\* stored under another endpoint while the sends were in flight is kept.
C28_Witness ==
    /\ ev.type = "sendPushToAll.cleanup"
    /\ ev.outcome = "saved"
    /\ ev.kind = "added"
    /\ Len(subscriptions) = 1

\* C29: the boot watchdog and the browser-attach auto-relaunch never have
\* launcher.relaunch in flight for the same session at the same time.
C29_NoOverlappingAutoRelaunch ==
    \A s \in Sids :
        ~(/\ wdPc = "awaiting"
          /\ wdStale[wdIdx] = s
          /\ odInFlight[s] > 0)

\* C30: the boot watchdog calls launcher.relaunch only for sessions that
\* restoreFromDisk() gave the launcher at boot, never for a session created
\* after the server started.
C30_WatchdogRelaunchesRestoredOnly ==
    \A s \in Sids : wdCalls[s] > 0 => bootState[s] # "none"

\* C31: once the launcher.relaunch of an on-demand attempt has settled,
\* resolved or rejected, the session's mark eventually leaves relaunchingSet.
C31_RelaunchMarkEventuallyRemoved ==
    \A s \in Sids :
        (s \in relaunchingSet /\ odInFlight[s] = 0) ~> (s \notin relaunchingSet)

\* A session restored as exited was relaunched on demand, the relaunch
\* resolved, and the cooldown timer has removed the mark.
C31_Witness ==
    \E s \in Sids :
        /\ bootState[s] = "exited"
        /\ lstate[s] = "starting"
        /\ s \notin relaunchingSet
        /\ cooldownTimers[s] = {}
        /\ odInFlight[s] = 0

\* C32: a session on which disconnectSession ran has no WebSocket registered
\* until a caller calls connectSession for it again: neither the close event
\* of the socket torn down nor a reconnect timer opens one.
C32_NoReconnectAfterDisconnect ==
    \A s \in Sids : s \in tornDown => sockets[s] = NoWs

\* The WebSocket objects of session s that are connecting or open.
LiveSockets(s) == {w \in DOMAIN ws : ws[w].sid = s /\ ws[w].st \in {"connecting", "open"}}

\* C33: every connecting or open WebSocket of a session is the one the
\* sockets map holds for it, so there is at most one per session.
C33_LiveSocketIsRegistered ==
    \A s \in Sids : \A w \in LiveSockets(s) : sockets[s] = w

C35_StoppedHoldsNoProcess ==
    tunnel.state.status = "stopped" => tunnel.process = NoProc

C37_AliveProcessIsHeld ==
    (\A c \in TunnelCallIds : tunnel.calls[c].op = "idle") =>
        tunnel.alive \subseteq {tunnel.process}

\* C38: auto-naming never overwrites an existing session name: when the
\* session has a name as the first-turn callback starts, no title is
\* generated, and when it has one as the generated title arrives (set before
\* the first turn completed or while the title was generated), the name stays
\* and nothing is broadcast.
C38_AutoNamingKeepsExistingName ==
    [][\A s \in Sids :
          (/\ ev'.type \in {"firstTurnCompleted", "titleGenerated"}
           /\ ev'.sid = s
           /\ getName(s) # NoName) =>
              /\ naming'.sessionNames[s] = getName(s)
              /\ naming'.updates[s] = naming.updates[s]
              /\ naming'.generating[s] <= naming.generating[s]]_vars

\* A title has just arrived for a session renamed while it was generated, and
\* was discarded.
C38_Witness ==
    /\ ev.type = "titleGenerated"
    /\ ev.mid \in Titles
    /\ ev.outcome = "discarded"
    /\ ev.sid \in Sids
    /\ naming.sessionNames[ev.sid] \in ManualNames
    /\ naming.updates[ev.sid] = {}

\* C39: a request whose Cf-Access-Jwt-Assertion token failed verification (a
\* team domain being configured) is answered 403 and is neither handed to a
\* route handler nor upgraded to a WebSocket; a request without the header,
\* or arriving with no team domain configured, passes the step unverified.
C39_FailedJwtIsDenied ==
    /\ [](\A r \in AccessReqIds : access.reqs[r].failed => access.reqs[r].pc = "denied")
    /\ [][\A r \in AccessReqIds :
            (/\ ev'.type \in {"fetch", "middleware"}
             /\ ev'.rid = r
             /\ (~access.teamDomain \/ access'.reqs[r].jwt = "absent")) =>
                access'.reqs[r].pc \in {"upgraded", "upgradeFailed", "middleware",
                                       "handled"}]_vars

\* A WebSocket upgrade with a token that failed verification has just been
\* answered 403.
C39_Witness ==
    \E r \in AccessReqIds :
        /\ ev.type = "fetch.verified"
        /\ ev.rid = r
        /\ access.reqs[r].kind = "ws"
        /\ access.reqs[r].failed
        /\ access.reqs[r].pc = "denied"

====
